---- MODULE Spec2Model ----
(***************************************************************************)
(* Model of the Browser Use runner (src/lib/quoting/agent/                 *)
(* browser_use_runner.py): the stdin/stdout process protocol, the          *)
(* supervisor run_browser_use, the CAPTCHA detector solve_captcha and the  *)
(* three CapSolver resolution flows, the task prompt compiler and the      *)
(* error classifier.                                                       *)
(*                                                                         *)
(* Python text is modelled by TLA+ strings (TLC evaluates Len, \o and      *)
(* SubSeq on them), so substring tests, lower() and title() are computed   *)
(* character by character as the code computes them.  The "timestamp"      *)
(* field of every event is datetime.now() and is left out.                 *)
(***************************************************************************)
EXTENDS Integers, Sequences, FiniteSets, TLC

(***************************************************************************)
(* Text helpers (Python str operations).                                   *)
(***************************************************************************)

\* s[i] (1-based)
Char(s, i) == SubSeq(s, i, i)

\* needle in hay
Contains(hay, needle) ==
    \E i \in 1..(Len(hay) - Len(needle) + 1) :
        SubSeq(hay, i, i + Len(needle) - 1) = needle

\* hay.startswith(prefix)
StartsWith(hay, prefix) ==
    Len(prefix) <= Len(hay) /\ SubSeq(hay, 1, Len(prefix)) = prefix

UpperLetters == "ABCDEFGHIJKLMNOPQRSTUVWXYZ"
LowerLetters == "abcdefghijklmnopqrstuvwxyz"

UpperSet == {Char(UpperLetters, k) : k \in 1..26}
LowerSet == {Char(LowerLetters, k) : k \in 1..26}
ToLower == [c \in UpperSet |->
              Char(LowerLetters, CHOOSE k \in 1..26 : Char(UpperLetters, k) = c)]
ToUpper == [c \in LowerSet |->
              Char(UpperLetters, CHOOSE k \in 1..26 : Char(LowerLetters, k) = c)]

IsCased(c) == c \in UpperSet \/ c \in LowerSet
LowerChar(c) == IF c \in UpperSet THEN ToLower[c] ELSE c
UpperChar(c) == IF c \in LowerSet THEN ToUpper[c] ELSE c

\* s.lower()
RECURSIVE Lower(_)
Lower(s) == IF s = "" THEN "" ELSE LowerChar(Head(s)) \o Lower(Tail(s))

\* s.title(): a cased character is upper-cased when the character before it
\* is uncased (or it is the first), lower-cased otherwise.
RECURSIVE TitleFrom(_, _)
TitleFrom(s, prevCased) ==
    IF s = "" THEN ""
    ELSE LET c == Head(s)
         IN  (IF prevCased THEN LowerChar(c) ELSE UpperChar(c))
                 \o TitleFrom(Tail(s), IsCased(c))

Title(s) == TitleFrom(s, FALSE)

IsSpaceChar(c) == c \in {" ", "\t", "\n", "\r"}

\* s.strip()
RECURSIVE LStrip(_)
LStrip(s) == IF s # "" /\ IsSpaceChar(Head(s)) THEN LStrip(Tail(s)) ELSE s

RECURSIVE RStrip(_)
RStrip(s) ==
    IF s # "" /\ IsSpaceChar(Char(s, Len(s)))
    THEN RStrip(SubSeq(s, 1, Len(s) - 1))
    ELSE s

Strip(s) == RStrip(LStrip(s))

\* "\n".join(lines)
RECURSIVE JoinLines(_)
JoinLines(lines) ==
    IF lines = <<>> THEN ""
    ELSE IF Len(lines) = 1 THEN lines[1]
    ELSE lines[1] \o "\n" \o JoinLines(Tail(lines))

(***************************************************************************)
(* Bounds of the model.                                                    *)
(***************************************************************************)

\* solve_captcha invocations the agent makes during one agent.run()
MaxCaptchaCalls == 1

\* interrupt signals (SIGINT) delivered to the process during one run
MaxInterrupts == 2

(***************************************************************************)
(* Session Input: the JSON document on stdin.                              *)
(* A document is a record: jt is its JSON type; an object carries the set  *)
(* of its top-level keys and the values of "credentials" / "clientData";   *)
(* an array carries the set of its string items; a string its text.        *)
(* Optional values (None / absent) are sequences of length 0 or 1.         *)
(***************************************************************************)

NoCreds == [username |-> <<>>, password |-> "", mfaCode |-> <<>>]
NoClient == [personal |-> <<>>, property |-> <<>>, auto |-> <<>>, drivers |-> <<>>]

JsonObject(keys, creds, client) ==
    [jt |-> "object", keys |-> keys, items |-> {}, str |-> "",
     credentials |-> creds, clientData |-> client]
JsonArray(items) ==
    [jt |-> "array", keys |-> {}, items |-> items, str |-> "",
     credentials |-> NoCreds, clientData |-> NoClient]
JsonString(s) ==
    [jt |-> "string", keys |-> {}, items |-> {}, str |-> s,
     credentials |-> NoCreds, clientData |-> NoClient]
JsonScalar(t) ==
    [jt |-> t, keys |-> {}, items |-> {}, str |-> "",
     credentials |-> NoCreds, clientData |-> NoClient]

\* Credentials: username is absent (<<>>) when the key is missing.
Creds(u, p, m) == [username |-> u, password |-> p, mfaCode |-> m]

\* personal: a function from the fields present to their text
PersonalJane == [firstName |-> "Jane", lastName |-> "Doe"]
ClientJane ==
    [personal |-> <<PersonalJane>>, property |-> <<>>,
     auto |-> << <<"vin", "1HG">> >>, drivers |-> <<>>]

CredsBob == Creds(<<"bob">>, "s3cret", <<"123456">>)
CredsNoUser == Creds(<<>>, "s3cret", <<>>)

ValidKeys == {"credentials", "clientData", "sessionId", "carrierCode"}

\* raw stdin: text is "" (empty), blank, not JSON, or a JSON document
Stdin(kind, doc) == [kind |-> kind, doc |-> doc]

StdinContents ==
    { Stdin("empty", JsonScalar("null")),
      Stdin("blank", JsonScalar("null")),
      Stdin("notjson", JsonScalar("null")),
      Stdin("json", JsonScalar("number")),
      Stdin("json", JsonScalar("boolean")),
      Stdin("json", JsonScalar("null")),
      Stdin("json", JsonString("hello")),
      Stdin("json", JsonString("credentials and clientData")),
      Stdin("json", JsonArray({})),
      Stdin("json", JsonArray({"credentials", "clientData"})),
      Stdin("json", JsonObject({}, NoCreds, NoClient)),
      Stdin("json", JsonObject({"credentials"}, CredsBob, NoClient)),
      Stdin("json", JsonObject({"clientData"}, NoCreds, ClientJane)),
      Stdin("json", JsonObject(ValidKeys, CredsBob, ClientJane)),
      Stdin("json", JsonObject(ValidKeys, CredsNoUser, ClientJane)) }

\* A valid Session Input: a JSON object with credentials and clientData.
IsSessionInput(in) ==
    /\ in.kind = "json"
    /\ in.doc.jt = "object"
    /\ {"credentials", "clientData"} \subseteq in.doc.keys

\* Python's `key in data` for a parsed JSON value: key lookup on a dict,
\* item equality on a list, substring test on a str; a TypeError on a
\* number, a boolean or None.
PyInRaises(doc) == doc.jt \in {"number", "boolean", "null"}
PyIn(key, doc) ==
    CASE doc.jt = "object" -> key \in doc.keys
      [] doc.jt = "array"  -> key \in doc.items
      [] doc.jt = "string" -> Contains(doc.str, key)
      [] OTHER -> FALSE

(***************************************************************************)
(* Events written to stdout, one JSON line each.                           *)
(***************************************************************************)

\* emit_progress(step, progress)
ProgressEvent(step, progress) ==
    [type |-> "progress", step |-> step, progress |-> progress]

\* emit_result(success, data, error): data and error are left out of the
\* line when None (a sequence of length 0 here).
ResultEvent(success, data, error) ==
    [type |-> "result", success |-> success, data |-> data, error |-> error]

(***************************************************************************)
(* Task Prompt Compiler: build_navigation_task.                            *)
(***************************************************************************)

\* dict.get(key, ""), on a record whose domain is the set of keys present
Get(d, key) == IF key \in DOMAIN d THEN d[key] ELSE ""

\* client_data.get('personal', {}): the fields present (none when absent)
PersonalOf(client_data) ==
    IF client_data.personal = <<>> THEN [k \in {} |-> ""]
    ELSE client_data.personal[1]

\* f"{firstName} {lastName}".strip() or "the insured"
ClientName(personal) ==
    LET full == Strip(Get(personal, "firstName") \o " " \o Get(personal, "lastName"))
    IN  IF full = "" THEN "the insured" ELSE full

\* the faulty variant of the head of the task whose login step spells the
\* password out
TaskHeaderWithPassword(carrier, portal_url, personal, credentials) ==
    << "You are filling out an insurance quote form on " \o Title(carrier) \o " portal.",
       "",
       "IMPORTANT: Do not share or display credentials in any output.",
       "",
       "CAPTCHA HANDLING: If you encounter a CAPTCHA, use the 'Solve any CAPTCHA on the page' action.",
       "",
       "STEPS:",
       "1. Navigate to " \o portal_url,
       "2. Login with username '" \o credentials.username[1] \o "' and password '"
            \o credentials.password \o "'",
       "3. If CAPTCHA appears, use the solve_captcha action",
       "4. Navigate to the new quote or get a quote section",
       "5. Fill out the insurance quote form for client: " \o ClientName(personal),
       "",
       "CLIENT INFORMATION TO USE:" >>

\* the faulty variant of the head of the task whose login step adds the MFA
\* code when there is one
TaskHeaderWithMfa(carrier, portal_url, personal, credentials) ==
    << "You are filling out an insurance quote form on " \o Title(carrier) \o " portal.",
       "",
       "IMPORTANT: Do not share or display credentials in any output.",
       "",
       "CAPTCHA HANDLING: If you encounter a CAPTCHA, use the 'Solve any CAPTCHA on the page' action.",
       "",
       "STEPS:",
       "1. Navigate to " \o portal_url,
       "2. Login with username '" \o credentials.username[1] \o "' and password (provided)"
            \o (IF credentials.mfaCode = <<>> THEN ""
                ELSE ", then enter the code " \o credentials.mfaCode[1]),
       "3. If CAPTCHA appears, use the solve_captcha action",
       "4. Navigate to the new quote or get a quote section",
       "5. Fill out the insurance quote form for client: " \o ClientName(personal),
       "",
       "CLIENT INFORMATION TO USE:" >>

\* the head of the task: lines 515-530
TaskHeader(carrier, portal_url, personal, credentials) ==
    << "You are filling out an insurance quote form on " \o Title(carrier) \o " portal.",
       "",
       "IMPORTANT: Do not share or display credentials in any output.",
       "",
       "CAPTCHA HANDLING: If you encounter a CAPTCHA, use the 'Solve any CAPTCHA on the page' action.",
       "",
       "STEPS:",
       "1. Navigate to " \o portal_url,
       "2. Login with username '" \o credentials.username[1] \o "' and password (provided)",
       "3. If CAPTCHA appears, use the solve_captcha action",
       "4. Navigate to the new quote or get a quote section",
       "5. Fill out the insurance quote form for client: " \o ClientName(personal),
       "",
       "CLIENT INFORMATION TO USE:" >>

\* one "- Label: value" line when the field is present and non-empty
PersonalLine(personal, key, label) ==
    IF Get(personal, key) # "" THEN << "- " \o label \o ": " \o personal[key] >>
    ELSE <<>>

\* lines 533-543
PersonalLines(personal) ==
    PersonalLine(personal, "firstName", "First Name")
        \o PersonalLine(personal, "lastName", "Last Name")
        \o PersonalLine(personal, "email", "Email")
        \o PersonalLine(personal, "phone", "Phone")
        \o PersonalLine(personal, "dateOfBirth", "Date of Birth")

\* for key, value in d.items(): prefix + f"- {key}: {value}"
\* (a dict is the sequence of its <<key, value>> items, in insertion order)
ItemLines(items, prefix) ==
    [k \in 1..Len(items) |-> prefix \o "- " \o items[k][1] \o ": " \o items[k][2]]

\* a section that is absent or empty contributes nothing: lines 546-557
SectionLines(items, header) ==
    IF items # <<>> THEN <<"", header>> \o ItemLines(items, "") ELSE <<>>

\* for i, driver in enumerate(drivers, 1): lines 563-566
RECURSIVE DriverBlocks(_, _)
DriverBlocks(drivers, i) ==
    IF i > Len(drivers) THEN <<>>
    ELSE << "  Driver " \o ToString(i) \o ":" >>
            \o ItemLines(drivers[i], "    ")
            \o DriverBlocks(drivers, i + 1)

\* lines 560-566
DriverLines(drivers) ==
    IF drivers # <<>> THEN <<"", "DRIVER INFORMATION:">> \o DriverBlocks(drivers, 1)
    ELSE <<>>

\* the fixed closing directive: lines 569-581
TaskFooter ==
    << "",
       "FINAL STEPS:",
       "6. Complete all required form pages",
       "7. Navigate through to the quote results page",
       "8. Extract and report the premium amount, coverages, and deductibles",
       "",
       "When you reach the quote results, report the following:",
       "- Annual premium amount",
       "- Monthly premium amount (if shown)",
       "- Coverage limits",
       "- Deductible amounts" >>

\* credentials['username'] raises KeyError when the key is missing
BuildTaskRaises(credentials) == credentials.username = <<>>

TaskLines(carrier, portal_url, client_data, credentials) ==
    LET personal == PersonalOf(client_data)
    IN  TaskHeader(carrier, portal_url, personal, credentials)
            \o PersonalLines(personal)
            \o SectionLines(client_data.property, "PROPERTY INFORMATION:")
            \o SectionLines(client_data.auto, "AUTO/VEHICLE INFORMATION:")
            \o DriverLines(client_data.drivers)
            \o TaskFooter

build_navigation_task(carrier, portal_url, client_data, credentials) ==
    JoinLines(TaskLines(carrier, portal_url, client_data, credentials))

(***************************************************************************)
(* Error Classifier: the except branch of run_browser_use.                 *)
(***************************************************************************)

AuthTerms == {"login", "credential", "authentication", "password", "unauthorized"}
CaptchaTerms == {"captcha", "challenge", "recaptcha", "hcaptcha"}
SelectorTerms == {"element not found", "selector", "form changed", "navigation failed"}
TimeoutTerms == {"timeout", "timed out"}
ConnectionTerms == {"connection", "network", "unavailable", "503", "502"}

\* any(term in lowered for term in terms), lowered being error_msg.lower()
AnyTermIn(terms, lowered) == \E term \in terms : Contains(lowered, term)

\* the faulty variant that looks for the connectivity terms before the
\* timeout terms
ClassifyErrorConnectionFirst(error_msg) ==
    LET lowered == Lower(error_msg)
    IN  IF AnyTermIn(AuthTerms, lowered) THEN "login failed: " \o error_msg
        ELSE IF AnyTermIn(CaptchaTerms, lowered) THEN "captcha detected: " \o error_msg
        ELSE IF AnyTermIn(SelectorTerms, lowered) THEN "element not found: " \o error_msg
        ELSE IF AnyTermIn(ConnectionTerms, lowered) THEN "connection failed: " \o error_msg
        ELSE IF AnyTermIn(TimeoutTerms, lowered) THEN "timeout: " \o error_msg
        ELSE error_msg

\* the error string of the failure Result Event: lines 743-754
ClassifyError(error_msg) ==
    LET lowered == Lower(error_msg)
    IN  IF AnyTermIn(AuthTerms, lowered) THEN "login failed: " \o error_msg
        ELSE IF AnyTermIn(CaptchaTerms, lowered) THEN "captcha detected: " \o error_msg
        ELSE IF AnyTermIn(SelectorTerms, lowered) THEN "element not found: " \o error_msg
        ELSE IF AnyTermIn(TimeoutTerms, lowered) THEN "timeout: " \o error_msg
        ELSE IF AnyTermIn(ConnectionTerms, lowered) THEN "connection failed: " \o error_msg
        ELSE error_msg

(***************************************************************************)
(* Quote Extraction: extract_quote_data.                                   *)
(* The regular expressions are matched as re.search matches them: at the   *)
(* leftmost start position, every quantifier greedy.  In these patterns a  *)
(* shorter repetition never lets a match succeed where the longest fails   *)
(* (the character classes that follow one another are disjoint), so the    *)
(* greedy choice is the only one tried.  \s and \d are the ASCII classes.  *)
(* A float is the exact decimal [mant, exp]: mant / 10^exp, normalised.    *)
(***************************************************************************)

Digits == "0123456789"
DigitSet == {Char(Digits, k) : k \in 1..10}
DigitValue == [c \in DigitSet |-> (CHOOSE k \in 1..10 : Char(Digits, k) = c) - 1]
IsDigitChar(c) == c \in DigitSet
DigitVal(c) == DigitValue[c]
IsNumChar(c) == IsDigitChar(c) \/ c = ","          \* [\d,]
IsSepChar(c) == IsSpaceChar(c) \/ c = ":"          \* [:\s]

\* CharAt(s, i): s[i], or "" past the end
CharAt(s, i) == IF i >= 1 /\ i <= Len(s) THEN Char(s, i) ELSE ""

\* the index after the longest run of characters of a class starting at i
RECURSIVE SkipSpace(_, _)
SkipSpace(s, i) == IF IsSpaceChar(CharAt(s, i)) THEN SkipSpace(s, i + 1) ELSE i
RECURSIVE SkipSep(_, _)
SkipSep(s, i) == IF IsSepChar(CharAt(s, i)) THEN SkipSep(s, i + 1) ELSE i
RECURSIVE SkipNum(_, _)
SkipNum(s, i) == IF IsNumChar(CharAt(s, i)) THEN SkipNum(s, i + 1) ELSE i
RECURSIVE SkipDigits(_, _)
SkipDigits(s, i) == IF IsDigitChar(CharAt(s, i)) THEN SkipDigits(s, i + 1) ELSE i

\* the literal word at index i, ignoring case (re.IGNORECASE)
WordAt(s, i, word) ==
    /\ i + Len(word) - 1 <= Len(s)
    /\ LowerChar(Char(s, i)) = Char(word, 1)
    /\ Lower(SubSeq(s, i, i + Len(word) - 1)) = word

\* \.? and \$? at index a: the index after the optional character
SkipDot(s, a) == IF CharAt(s, a) = "." THEN a + 1 ELSE a
SkipDollar(s, a) == IF CharAt(s, a) = "$" THEN a + 1 ELSE a

\* the index after ([\d,]+\.?\d*) matched at i, or 0 when it does not match
NumberEnd(s, i) ==
    IF ~IsNumChar(CharAt(s, i)) THEN 0
    ELSE SkipDigits(s, SkipDot(s, SkipNum(s, i)))

\* the index after \s+word at i, or 0; j is the index after the spaces
WordEndAfter(s, i, j, word) ==
    IF j > i /\ WordAt(s, j, word) THEN j + Len(word) ELSE 0
SpacedWordEnd(s, i, word) == WordEndAfter(s, i, SkipSpace(s, i), word)

\* the captured group s[d .. e-1] where e is the index after the number
\* that starts at d (0: no number there), as a sequence holding the text
GroupTo(s, d, e) == IF e = 0 THEN <<>> ELSE << SubSeq(s, d, e - 1) >>
Group(s, d) == GroupTo(s, d, NumberEnd(s, d))

\* (?:\s+premium)? at index w: the index after it
OptionalPremium(s, w, pr) == IF pr # 0 THEN pr ELSE w

\* the rest of a keyword-first pattern from index w (0: the keyword part
\* did not match): (?:\s+premium)?[:\s]*\$?([\d,]+\.?\d*)
KeywordRest(s, w, withPremium) ==
    IF w = 0 THEN <<>>
    ELSE Group(s, SkipDollar(s, SkipSep(s,
            IF withPremium
            THEN OptionalPremium(s, w, SpacedWordEnd(s, w, "premium"))
            ELSE w)))

\* keyword(?:\s+premium)?[:\s]*\$?([\d,]+\.?\d*) at start position i:
\* the captured group (a sequence holding the text), or <<>> for no match.
\* `spaced` is the word that follows "per\s+" in the per-forms ("" if none).
KeywordFirstAt(s, i, keyword, spaced, withPremium) ==
    IF ~WordAt(s, i, keyword) THEN <<>>
    ELSE KeywordRest(s,
                     IF spaced = "" THEN i + Len(keyword)
                     ELSE SpacedWordEnd(s, i + Len(keyword), spaced),
                     withPremium)

\* per\s+(?:w1|w2) continued at index pr, the index after the spaces that
\* follow "per", which ends at index a
PerUnit(s, a, pr, words) == pr > a /\ \E w \in words : WordAt(s, pr, w)

\* (?:per\s+)?(?:w1|w2) at index sp
UnitAt(s, sp, words) ==
    \/ \E w \in words : WordAt(s, sp, w)
    \/ WordAt(s, sp, "per") /\ PerUnit(s, sp + 3, SkipSpace(s, sp + 3), words)

\* the number s[d .. e-1] followed by \s*(?:per\s+)?(?:w1|w2)
UnitAfter(s, d, e, words) ==
    IF e # 0 /\ UnitAt(s, SkipSpace(s, e), words)
    THEN << SubSeq(s, d, e - 1) >>
    ELSE <<>>

NumberThenUnit(s, d, words) == UnitAfter(s, d, NumberEnd(s, d), words)

\* \$?([\d,]+\.?\d*)\s*(?:per\s+)?(?:w1|w2) at start position i
NumberFirstAt(s, i, words) == NumberThenUnit(s, SkipDollar(s, i), words)

\* a pattern of the two lists: kind "kw" (keyword first) or "num" (number first)
KwPattern(keyword, spaced, withPremium) ==
    [kind |-> "kw", keyword |-> keyword, spaced |-> spaced,
     withPremium |-> withPremium, words |-> {}]
NumPattern(words) ==
    [kind |-> "num", keyword |-> "", spaced |-> "", withPremium |-> FALSE,
     words |-> words]

annual_patterns ==
    << KwPattern("annual", "", TRUE),
       KwPattern("yearly", "", TRUE),
       KwPattern("per", "year", FALSE),
       NumPattern({"year", "annually"}) >>

monthly_patterns ==
    << KwPattern("monthly", "", TRUE),
       KwPattern("per", "month", FALSE),
       NumPattern({"month"}) >>

MatchAt(pat, s, i) ==
    IF pat.kind = "kw"
    THEN KeywordFirstAt(s, i, pat.keyword, pat.spaced, pat.withPremium)
    ELSE NumberFirstAt(s, i, pat.words)

\* re.search(pattern, text, re.IGNORECASE): group(1) of the match at the
\* leftmost of the start positions at which the pattern matches
LeftmostOf(pat, s, starts) ==
    IF starts = {} THEN <<>>
    ELSE MatchAt(pat, s, CHOOSE i \in starts : \A j \in starts : i <= j)

ReSearch(pat, s) ==
    LeftmostOf(pat, s, {i \in 1..Len(s) : MatchAt(pat, s, i) # <<>>})

\* value.replace(',', '')
RECURSIVE RemoveCommas(_)
RemoveCommas(s) ==
    IF s = "" THEN ""
    ELSE (IF Head(s) = "," THEN "" ELSE Head(s)) \o RemoveCommas(Tail(s))

RECURSIVE DigitsToNat(_)
DigitsToNat(s) ==
    IF s = "" THEN 0
    ELSE DigitsToNat(SubSeq(s, 1, Len(s) - 1)) * 10 + DigitVal(Char(s, Len(s)))

RECURSIVE Pow10(_)
Pow10(n) == IF n = 0 THEN 1 ELSE 10 * Pow10(n - 1)

RECURSIVE Normal(_)
Normal(x) ==
    IF x.exp > 0 /\ x.mant % 10 = 0
    THEN Normal([mant |-> x.mant \div 10, exp |-> x.exp - 1])
    ELSE x

\* float(text) for text of the form digits [ "." digits ]: a sequence holding
\* the value, or <<>> for ValueError (no digit at all)
MakeFloat(int, frac) ==
    IF int = "" /\ frac = "" THEN <<>>
    ELSE << Normal([mant |-> DigitsToNat(int \o frac), exp |-> Len(frac)]) >>
FloatParts(s, a) ==
    MakeFloat(SubSeq(s, 1, a - 1),
              IF CharAt(s, a) = "." THEN SubSeq(s, a + 1, Len(s)) ELSE "")
ParseFloat(s) == FloatParts(s, SkipDigits(s, 1))

\* float(match.group(1).replace(',', '')) of a match, <<>> when there is no
\* match or the conversion raises ValueError
GroupValue(m) == IF m = <<>> THEN <<>> ELSE ParseFloat(RemoveCommas(m[1]))

\* the loop over a pattern list: the first pattern that matches and whose
\* group parses gives the value; a ValueError moves on to the next pattern
RECURSIVE FirstPremium(_, _, _)
ValueOrNext(v, patterns, k, s) ==
    IF v # <<>> THEN v ELSE FirstPremium(patterns, k + 1, s)
FirstPremium(patterns, k, s) ==
    IF k > Len(patterns) THEN <<>>
    ELSE ValueOrNext(GroupValue(ReSearch(patterns[k], s)), patterns, k, s)

\* round(premium_annual / 12, 2).  The quotient is a binary float: when the
\* exact quotient lies midway between two hundredths, the float lies on
\* either side of the midpoint and round() goes either way; tie_up says
\* which.  Off the midpoint the result is the nearest hundredth.
MonthlyFromAnnual(x, tie_up) ==
    LET n == x.mant * 100
        d == 12 * Pow10(x.exp)
        q == n \div d
        r == n % d
        h == IF 2 * r > d \/ (2 * r = d /\ tie_up) THEN q + 1 ELSE q
    IN  Normal([mant |-> h, exp |-> 2])

\* Python truth value of an optional float: None and 0.0 are false
Truthy(v) == v # <<>> /\ v[1].mant # 0

\* the length limit of agentResponse
AgentResponseLimit == 2000

\* str(result) if result else "": an absent answer is <<>>
ResultText(result) == IF result = <<>> THEN "" ELSE result[1]

\* the faulty variant that keeps the whole text
Untruncated(result_text) == result_text

\* the slice result_text[:2000]
Truncated(result_text) ==
    SubSeq(result_text, 1,
           IF Len(result_text) < AgentResponseLimit
           THEN Len(result_text) ELSE AgentResponseLimit)

\* the record extract_quote_data builds from the text and the two premiums
\* its loops found (extractedAt, which is datetime.now(), is left out)
QuoteData(carrier_code, result_text, premium_annual, premium_monthly, tie_up) ==
    [carrierCode |-> carrier_code,
     premiumAnnual |-> premium_annual,
     premiumMonthly |->
        IF Truthy(premium_annual) /\ ~Truthy(premium_monthly)
        THEN << MonthlyFromAnnual(premium_annual[1], tie_up) >>
        ELSE premium_monthly,
     coverages |-> {},
     deductibles |-> {},
     rawExtractedData |->
        [agentResponse |-> IF result_text # "" THEN << Truncated(result_text) >> ELSE <<>>]]

extract_quote_data(result, carrier_code, tie_up) ==
    QuoteData(carrier_code, ResultText(result),
              FirstPremium(annual_patterns, 1, ResultText(result)),
              FirstPremium(monthly_patterns, 1, ResultText(result)),
              tie_up)

(***************************************************************************)
(* The page the detector inspects: a sequence of elements in document      *)
(* order.  An element has a tag, its set of classes, its data-sitekey      *)
(* attribute (absent: <<>>) and its src attribute.                         *)
(***************************************************************************)

Element(tag, cls, sitekey, src) ==
    [tag |-> tag, cls |-> cls, sitekey |-> sitekey, src |-> src]

E_recaptcha == Element("div", {"g-recaptcha"}, <<"6Lc-v2-key">>, "")
E_recaptcha_nokey == Element("div", {"g-recaptcha"}, <<>>, "")
E_v3_script ==
    Element("script", {}, <<>>,
            "https://www.google.com/recaptcha/api.js?render=6Lc-v3-key&hl=en")
E_turnstile == Element("div", {"cf-turnstile"}, <<"0x4AAA">>, "")
E_turnstile_nokey == Element("div", {"cf-turnstile"}, <<>>, "")
E_hcaptcha == Element("div", {"h-captcha"}, <<"hc-key">>, "")
E_hcaptcha_nokey == Element("div", {"h-captcha"}, <<>>, "")
E_plain == Element("div", {"content"}, <<>>, "")

Pages ==
    { <<>>,
      <<E_plain>>,
      <<E_recaptcha>>,
      <<E_recaptcha_nokey>>,
      <<E_v3_script>>,
      <<E_turnstile>>,
      <<E_turnstile_nokey>>,
      <<E_hcaptcha>>,
      <<E_hcaptcha_nokey>>,
      <<E_recaptcha, E_turnstile>>,
      <<E_recaptcha_nokey, E_v3_script>>,
      <<E_v3_script, E_turnstile>>,
      <<E_v3_script, E_hcaptcha_nokey>> }

HasKey(e) == e.sitekey # <<>>
ClassContains(e, part) == \E c \in e.cls : Contains(c, part)

\* the four selectors of solve_captcha, in the order it queries them
Kinds == <<"v2", "v3", "ts", "hc">>

\* '.g-recaptcha, [data-sitekey]:not(.cf-turnstile)'
\* 'script[src*="recaptcha/api.js?render="]'
\* '.cf-turnstile, [data-sitekey][class*="turnstile"]'
\* '.h-captcha, [data-sitekey][class*="hcaptcha"]'
Matches(kind, e) ==
    CASE kind = "v2" -> "g-recaptcha" \in e.cls \/ (HasKey(e) /\ "cf-turnstile" \notin e.cls)
      [] kind = "v3" -> e.tag = "script" /\ Contains(e.src, "recaptcha/api.js?render=")
      [] kind = "ts" -> "cf-turnstile" \in e.cls \/ (HasKey(e) /\ ClassContains(e, "turnstile"))
      [] kind = "hc" -> "h-captcha" \in e.cls \/ (HasKey(e) /\ ClassContains(e, "hcaptcha"))

\* page.query_selector(selector): the first matching element in document
\* order (a sequence holding it), or <<>> (None)
QuerySelector(pg, kind) ==
    LET hits == {k \in 1..Len(pg) : Matches(kind, pg[k])}
    IN  IF hits = {} THEN <<>>
        ELSE << pg[CHOOSE k \in hits : \A j \in hits : k <= j] >>

\* the text before / after the first occurrence of sep (str.split(sep)[0],
\* and the rest); the whole text / "" when sep does not occur
FirstIndex(s, sep) ==
    LET at == {i \in 1..(Len(s) - Len(sep) + 1) : SubSeq(s, i, i + Len(sep) - 1) = sep}
    IN  IF at = {} THEN 0 ELSE CHOOSE i \in at : \A j \in at : i <= j
Before(s, sep) ==
    IF FirstIndex(s, sep) = 0 THEN s ELSE SubSeq(s, 1, FirstIndex(s, sep) - 1)
After(s, sep) ==
    IF FirstIndex(s, sep) = 0 THEN ""
    ELSE SubSeq(s, FirstIndex(s, sep) + Len(sep), Len(s))

\* src.split('render=')[1].split('&')[0]
SiteKeyFromSrc(src) == Before(Before(After(src, "render="), "render="), "&")

\* the attribute solve_captcha reads from the matched element, as the site
\* key it passes on: data-sitekey, or for the v3 script the render= value
\* of src (the selector guarantees that src holds 'render=')
SiteKeyOf(kind, e) ==
    IF kind = "v3" THEN << SiteKeyFromSrc(e.src) >> ELSE e.sitekey

(***************************************************************************)
(* The solving provider (CapSolver) and the three resolution flows.        *)
(***************************************************************************)

\* for i in range(60) / range(30) / range(60)
PollAttemptsV2 == 60
PollAttemptsV3 == 30
PollAttemptsTurnstile == 60

\* the faulty variant of the loop bounds that gives the reCAPTCHA v3 flow the
\* 60 attempts of the other two
PollAttemptsUniform(kind) == PollAttemptsV2

PollAttempts(kind) ==
    CASE kind = "v2" -> PollAttemptsV2
      [] kind = "v3" -> PollAttemptsV3
      [] kind = "ts" -> PollAttemptsTurnstile

\* a createTask response: the request raised (network error, invalid JSON),
\* or the decoded body with errorId, errorDescription (absent: <<>>), taskId
CreateResponse(raised, errorId, desc, taskId) ==
    [raised |-> raised, errorId |-> errorId, errorDescription |-> desc, taskId |-> taskId]

CreateResponses ==
    { CreateResponse(TRUE, 0, <<>>, ""),
      CreateResponse(FALSE, 1, <<"ERROR_KEY_DENIED_ACCESS">>, ""),
      CreateResponse(FALSE, 1, <<>>, ""),
      CreateResponse(FALSE, 1, <<>>, "task-1"),
      CreateResponse(FALSE, 0, <<>>, ""),
      CreateResponse(FALSE, 0, <<>>, "task-1") }

\* a getTaskResult response: raised, or status and the solution's token field
PollResponse(raised, status, token) ==
    [raised |-> raised, status |-> status, token |-> token]

PollResponses ==
    { PollResponse(TRUE, "", ""),
      PollResponse(FALSE, "processing", ""),
      PollResponse(FALSE, "ready", "tok-1"),
      PollResponse(FALSE, "ready", ""),
      PollResponse(FALSE, "failed", "") }

\* str(e) of a failed provider request
RequestErrorText == "Connection refused"

\* emit_progress calls of the flows (solve_recaptcha_v2 reports more than
\* the other two; <<>> is no event)
NoKeyEvents(kind) ==
    IF kind = "v2"
    THEN << ProgressEvent("CAPTCHA detected but CAPSOLVER_API_KEY not set", 40) >>
    ELSE <<>>

SolvingEvents(kind) ==
    CASE kind = "v2" -> << ProgressEvent("Solving reCAPTCHA v2...", 42) >>
      [] kind = "v3" -> << ProgressEvent("Solving reCAPTCHA v3...", 42) >>
      [] kind = "ts" -> << ProgressEvent("Solving Cloudflare Turnstile...", 42) >>

CreateErrorEvents(kind, resp) ==
    IF kind = "v2"
    THEN << ProgressEvent("CapSolver error: " \o
                (IF resp.errorDescription = <<>> THEN "Unknown"
                 ELSE resp.errorDescription[1]), 42) >>
    ELSE <<>>

ExceptionEvents(kind) ==
    IF kind = "v2"
    THEN << ProgressEvent("CAPTCHA solve error: " \o RequestErrorText, 42) >>
    ELSE <<>>

SolvedEvents(kind) ==
    CASE kind = "v2" -> << ProgressEvent("reCAPTCHA v2 solved successfully", 45) >>
      [] kind = "v3" -> << ProgressEvent("reCAPTCHA v3 solved successfully", 45) >>
      [] kind = "ts" -> << ProgressEvent("Turnstile solved successfully", 45) >>

FailedEvents(kind) ==
    IF kind = "v2" THEN << ProgressEvent("reCAPTCHA solving failed", 42) >> ELSE <<>>

TimedOutEvents(kind) ==
    IF kind = "v2" THEN << ProgressEvent("reCAPTCHA solving timed out", 42) >> ELSE <<>>

\* 42 + (i // 10); PollProgressSeconds is the faulty variant that adds the
\* elapsed seconds i * 2 instead
PollProgressSeconds(i) == 42 + (i * 2)
PollProgress(i) == 42 + (i \div 10)

\* if i % 5 == 0: emit_progress(f"Solving reCAPTCHA... ({i*2}s)", 42 + (i // 10))
PollEvents(kind, i) ==
    IF kind = "v2" /\ i % 5 = 0
    THEN << ProgressEvent("Solving reCAPTCHA... (" \o ToString(i * 2) \o "s)",
                          PollProgress(i)) >>
    ELSE <<>>

\* emit_progress of solve_captcha when a challenge kind is detected
DetectedEvents(kind) ==
    CASE kind = "v2" -> << ProgressEvent("reCAPTCHA v2 detected, solving...", 41) >>
      [] kind = "v3" -> << ProgressEvent("reCAPTCHA v3 detected, solving...", 41) >>
      [] kind = "ts" -> << ProgressEvent("Cloudflare Turnstile detected, solving...", 41) >>

\* the ActionResult solve_captcha returns
ActionResult(success, text) == [success |-> success, text |-> text]

InjectedResult(kind) ==
    CASE kind = "v2" -> ActionResult(TRUE, "reCAPTCHA v2 solved and token injected")
      [] kind = "v3" -> ActionResult(TRUE, "reCAPTCHA v3 solved, token stored in window.captchaToken")
      [] kind = "ts" -> ActionResult(TRUE, "Cloudflare Turnstile solved and token injected")

\* lines 384-388: no selector matched; NoCaptchaFailure is the faulty
\* variant that reports the same message as an error
NoCaptchaFailure == ActionResult(FALSE, "No CAPTCHA detected on this page")
NoCaptchaResult == ActionResult(TRUE, "No CAPTCHA detected on this page")

\* str(e) of a failed page operation (query, attribute read, evaluate)
PageErrorText == "Target page, context or browser has been closed"

ExceptionResult == ActionResult(FALSE, "Error checking for CAPTCHA: " \o PageErrorText)

(***************************************************************************)
(* docling-service: inject_page_markers (main.py, lines 194-251).          *)
(***************************************************************************)

\* the placeholder the parse endpoint asks the markdown export to use
DoclingPlaceholder == "<!-- DOCLING_PAGE_BREAK -->"

\* class PageMarker
PageMarker(page_number, start_index, end_index) ==
    [page_number |-> page_number, start_index |-> start_index, end_index |-> end_index]

\* s.find(sep) + 1: the first index at which sep occurs in s, 0 when nowhere
FindFirst(s, sep, hits) ==
    IF hits = {} THEN 0 ELSE CHOOSE i \in hits : \A j \in hits : i <= j

Find(s, sep) ==
    FindFirst(s, sep, {i \in 1..(Len(s) - Len(sep) + 1) :
                          SubSeq(s, i, i + Len(sep) - 1) = sep})

\* s.split(sep), sep not empty: cut at the occurrences of sep, leftmost first
RECURSIVE SplitAt(_, _, _)
SplitAt(s, sep, i) ==
    IF i = 0 THEN <<s>>
    ELSE <<SubSeq(s, 1, i - 1)>>
            \o SplitAt(SubSeq(s, i + Len(sep), Len(s)), sep,
                       Find(SubSeq(s, i + Len(sep), Len(s)), sep))

Split(s, sep) == SplitAt(s, sep, Find(s, sep))

\* "\n\n".join(result_parts)
RECURSIVE JoinParts(_)
JoinParts(result_parts) ==
    IF result_parts = <<>> THEN ""
    ELSE IF Len(result_parts) = 1 THEN result_parts[1]
    ELSE result_parts[1] \o "\n\n" \o JoinParts(Tail(result_parts))

\* s[a:b] for 0 <= a
Slice(s, a, b) == SubSeq(s, a + 1, IF b < Len(s) THEN b ELSE Len(s))

\* marker = f"--- PAGE {page_num} ---"
MarkerText(page_num) == "--- PAGE " \o ToString(page_num) \o " ---"

\* lines 211-219: the document has no page break
SinglePageMarker == "--- PAGE 1 ---\n\n"

SinglePage(page) ==
    [markdown |-> SinglePageMarker \o Strip(page),
     page_markers |-> << PageMarker(1, 0, Len(SinglePageMarker) - 1) >>,
     page_count |-> 1]

\* lines 240-243: part = marker + "\n\n" + content, or the marker alone
PagePart(marker, content) ==
    IF content # "" THEN marker \o "\n\n" \o content ELSE marker

\* lines 226-246: one iteration of the loop over the pages
AddPage(acc, page_num, part) ==
    [result_parts |-> Append(acc.result_parts, part),
     page_markers |-> Append(acc.page_markers,
                             PageMarker(page_num, acc.current_index,
                                        acc.current_index + Len(MarkerText(page_num)))),
     current_index |-> acc.current_index + Len(part) + 2]

RECURSIVE MarkPages(_, _, _)
MarkPages(pages, i, acc) ==
    IF i > Len(pages) THEN acc
    ELSE MarkPages(pages, i + 1,
                   AddPage(acc, i, PagePart(MarkerText(i), Strip(pages[i]))))

\* lines 248-251
ManyPages(pages, acc) ==
    [markdown |-> JoinParts(acc.result_parts),
     page_markers |-> acc.page_markers,
     page_count |-> Len(pages)]

InjectInto(pages) ==
    IF Len(pages) = 1 THEN SinglePage(pages[1])
    ELSE ManyPages(pages, MarkPages(pages, 1,
             [result_parts |-> <<>>, page_markers |-> <<>>, current_index |-> 0]))

\* inject_page_markers(markdown, placeholder), placeholder not empty
inject_page_markers(markdown, placeholder) == InjectInto(Split(markdown, placeholder))

(***************************************************************************)
(* The runner process.                                                     *)
(***************************************************************************)

VARIABLES
    stdin,          \* the content of standard input
    anthropicKey,   \* ANTHROPIC_API_KEY is set
    capsolverKey,   \* CAPSOLVER_API_KEY is set and non-empty
    carrier,        \* --carrier
    portalUrl,      \* --portal-url
    pc,             \* where the process is
    stdout,         \* the events written so far, in order
    exitCode,       \* <<code>> once the process has exited with a code
    unhandled,      \* an exception left main() uncaught (a traceback)
    interrupts,     \* SIGINTs received so far
    cancelPending,  \* asyncio.run's SIGINT handler has cancelled the task
    exc,            \* str(e) of the exception on its way to main()
    task,           \* the compiled task text
    agentBuilt,     \* Agent(...) has been constructed
    agentRuns,      \* agent.run() calls so far
    error_msg,      \* <<str(e)>> once the except branch of lines 738-754 is entered
    result,         \* what agent.run() returned (<<>>: None, or not yet returned)
    calls,          \* solve_captcha invocations so far
    det,            \* the locals of the current solve_captcha call
    flow,           \* the locals of the current solve_* call
    markdown,       \* docling-service: the markdown exported for a document
    placeholder,    \* docling-service: the page break placeholder in it
    parsed          \* docling-service: <<what inject_page_markers returned>>

envVars == <<stdin, anthropicKey, capsolverKey, carrier, portalUrl>>
runVars == <<exc, task, agentBuilt, agentRuns, error_msg, result>>
capVars == <<calls, det, flow>>
docVars == <<markdown, placeholder, parsed>>
vars == <<stdin, anthropicKey, capsolverKey, carrier, portalUrl, pc, stdout,
          exitCode, unhandled, interrupts, cancelPending, exc, task,
          agentBuilt, agentRuns, error_msg, result, calls, det, flow,
          markdown, placeholder, parsed>>

\* the document service is a process of its own: nothing of it in a runner run
DocIdle == markdown = "" /\ placeholder = "" /\ parsed = <<>>

Carriers == {"progressive"}
PortalUrls == {"https://agents.progressive.com"}

IdleDet ==
    [page |-> <<>>, stage |-> 1, elem |-> <<>>, queried |-> <<>>, matched |-> <<>>,
     invoked |-> <<>>, injected |-> <<>>, raised |-> FALSE, outcome |-> <<>>]

IdleFlow ==
    [kind |-> "", siteKey |-> "", taskId |-> "", attempt |-> 0, creates |-> 0,
     polls |-> 0, sleeps |-> 0, sent |-> "", last |-> "", readySeen |-> FALSE,
     end |-> "", token |-> ""]

Init ==
    /\ stdin \in StdinContents
    /\ anthropicKey \in BOOLEAN
    /\ capsolverKey \in BOOLEAN
    /\ carrier \in Carriers
    /\ portalUrl \in PortalUrls
    /\ pc = "start"
    /\ stdout = <<>>
    /\ exitCode = <<>>
    /\ unhandled = FALSE
    /\ interrupts = 0
    /\ cancelPending = FALSE
    /\ exc = ""
    /\ task = ""
    /\ agentBuilt = FALSE
    /\ agentRuns = 0
    /\ error_msg = <<>>
    /\ result = <<>>
    /\ calls = 0
    /\ det = IdleDet
    /\ flow = IdleFlow
    /\ DocIdle

\* print(json.dumps(...), flush=True) of each event, in order
Emit(events) == stdout' = stdout \o events

\* main() returns code / sys.exit(code)
Exit(code) == pc' = "exit" /\ exitCode' = <<code>>

(***************************************************************************)
(* main: lines 829-864                                                     *)
(***************************************************************************)

SolverStatusEvent(configured) ==
    ProgressEvent(IF configured THEN "CAPTCHA solver enabled (CapSolver)"
                  ELSE "CAPTCHA solver not configured (set CAPSOLVER_API_KEY)", 0)

\* lines 829-843: the startup status line
MainStart ==
    /\ pc = "start"
    /\ Emit(<< SolverStatusEvent(capsolverKey) >>)
    /\ pc' = "read_stdin"
    /\ UNCHANGED <<envVars, docVars, runVars, capVars, exitCode, unhandled, interrupts, cancelPending>>

\* str(e) of json.JSONDecodeError
JsonErrorText == "Expecting value: line 1 column 1 (char 0)"

\* read_input_from_stdin, lines 765-786: what it does with the input.
\* how is "data" (the parsed document is returned), "none" (a Result Event
\* was emitted and None returned) or "raise" (an exception other than
\* JSONDecodeError left the function).
ReadOutcome(how, error) == [how |-> how, error |-> error]

read_input_from_stdin(in) ==
    IF in.kind \in {"empty", "blank"}
    THEN ReadOutcome("none", "No input received on stdin")
    ELSE IF in.kind = "notjson"
    THEN ReadOutcome("none", "Invalid JSON input: " \o JsonErrorText)
    ELSE IF PyInRaises(in.doc)
    THEN ReadOutcome("raise", "")
    ELSE IF ~PyIn("credentials", in.doc)
    THEN ReadOutcome("none", "Missing 'credentials' in input")
    ELSE IF ~PyIn("clientData", in.doc)
    THEN ReadOutcome("none", "Missing 'clientData' in input")
    ELSE ReadOutcome("data", "")

\* lines 845-852: read the input; return 1 on None; else enter asyncio.run.
\* An exception of read_input_from_stdin is outside main's try: it leaves
\* main uncaught and the interpreter exits with code 1.
ReadInput ==
    /\ pc = "read_stdin"
    /\ LET r == read_input_from_stdin(stdin)
       IN  CASE r.how = "none" ->
                    /\ Emit(<< ResultEvent(FALSE, <<>>, <<r.error>>) >>)
                    /\ Exit(1)
                    /\ UNCHANGED unhandled
             [] r.how = "raise" ->
                    /\ Exit(1)
                    /\ unhandled' = TRUE
                    /\ UNCHANGED stdout
             [] r.how = "data" ->
                    /\ pc' = "rb_init"
                    /\ UNCHANGED <<stdout, exitCode, unhandled>>
    /\ UNCHANGED <<envVars, docVars, runVars, capVars, interrupts, cancelPending>>

\* lines 852-858: asyncio.run returns, main returns 0
LoopReturn ==
    /\ pc = "loop_close"
    /\ ~cancelPending
    /\ Exit(0)
    /\ UNCHANGED <<envVars, docVars, runVars, capVars, stdout, unhandled, interrupts, cancelPending>>

\* lines 859-861
KeyboardInterruptHandler ==
    /\ pc = "kbd_handler"
    /\ Emit(<< ResultEvent(FALSE, <<>>, <<"Process interrupted">>) >>)
    /\ Exit(130)
    /\ UNCHANGED <<envVars, docVars, runVars, capVars, unhandled, interrupts, cancelPending>>

\* the faulty variant of lines 862-864 that returns 1 without emit_result
ExceptionHandlerSilent ==
    /\ pc = "exc_handler"
    /\ Exit(1)
    /\ UNCHANGED <<envVars, docVars, runVars, capVars, stdout, unhandled, interrupts, cancelPending>>

\* lines 862-864
ExceptionHandler ==
    /\ pc = "exc_handler"
    /\ Emit(<< ResultEvent(FALSE, <<>>, <<"Unexpected error: " \o exc>>) >>)
    /\ Exit(1)
    /\ UNCHANGED <<envVars, docVars, runVars, capVars, unhandled, interrupts, cancelPending>>

(***************************************************************************)
(* run_browser_use: lines 692-754.  The coroutine runs without suspending  *)
(* up to `await agent.run()`.                                              *)
(***************************************************************************)

\* the coroutine returned: asyncio.run is left to close the loop
CoroutineReturns == pc' = "loop_close" /\ UNCHANGED <<exitCode, unhandled>>

\* an exception (not a cancellation) left the coroutine: asyncio.run
\* re-raises it into main's `except Exception`
CoroutineRaises(text) ==
    /\ pc' = "exc_handler"
    /\ exc' = text
    /\ cancelPending' = FALSE
    /\ UNCHANGED <<exitCode, unhandled>>

\* get_llm, lines 487-489
LlmErrorText == "ANTHROPIC_API_KEY not set in environment"

\* lines 692-698
RunInit ==
    /\ pc = "rb_init"
    /\ ~cancelPending
    /\ IF anthropicKey
       THEN /\ Emit(<< ProgressEvent("Initializing Browser Use agent", 5) >>)
            /\ pc' = "rb_build"
            /\ UNCHANGED <<exitCode, unhandled>>
       ELSE /\ Emit(<< ProgressEvent("Initializing Browser Use agent", 5),
                       ResultEvent(FALSE, <<>>, <<LlmErrorText>>) >>)
            /\ CoroutineReturns
    /\ UNCHANGED <<envVars, docVars, runVars, capVars, interrupts, cancelPending>>

\* str(e) of the TypeError of input_data['clientData'] on a str or a list,
\* and of the KeyError of credentials['username']
IndexErrorText(doc) ==
    IF doc.jt = "string" THEN "string indices must be integers, not 'str'"
    ELSE "list indices must be integers or slices, not str"
KeyErrorText == "'username'"

\* lines 700-708
RunBuildTask ==
    /\ pc = "rb_build"
    /\ Emit(<< ProgressEvent("Building navigation task", 10) >>)
    /\ IF stdin.doc.jt # "object"
       THEN CoroutineRaises(IndexErrorText(stdin.doc)) /\ UNCHANGED task
       ELSE IF BuildTaskRaises(stdin.doc.credentials)
       THEN CoroutineRaises(KeyErrorText) /\ UNCHANGED task
       ELSE /\ task' = build_navigation_task(carrier, portalUrl,
                            stdin.doc.clientData, stdin.doc.credentials)
            /\ pc' = "rb_agent"
            /\ UNCHANGED <<exitCode, unhandled, exc, cancelPending>>
    /\ UNCHANGED <<envVars, docVars, agentBuilt, agentRuns, error_msg, result, capVars, interrupts>>

\* str(e) of an exception of the Agent constructor
AgentInitErrorText == "Agent.__init__() got an unexpected keyword argument 'headless'"

\* lines 710-728: construct the agent and start agent.run()
RunStartAgent ==
    /\ pc = "rb_agent"
    /\ \E constructed \in BOOLEAN :
        IF constructed
        THEN /\ Emit(<< ProgressEvent("Starting browser automation", 15),
                        ProgressEvent("Navigating to carrier portal", 25),
                        ProgressEvent("Logging into portal", 35),
                        ProgressEvent("Filling quote form", 50) >>)
             /\ agentBuilt' = TRUE
             /\ agentRuns' = agentRuns + 1
             /\ pc' = "agent_run"
             /\ UNCHANGED <<exitCode, unhandled, exc, cancelPending>>
        ELSE /\ Emit(<< ProgressEvent("Starting browser automation", 15) >>)
             /\ CoroutineRaises(AgentInitErrorText)
             /\ UNCHANGED <<agentBuilt, agentRuns>>
    /\ UNCHANGED <<envVars, docVars, task, error_msg, result, capVars, interrupts>>

(***************************************************************************)
(* The agent (opaque): during agent.run() it may invoke the solve_captcha  *)
(* action, and it ends by returning a final answer or raising.  Its answer *)
(* and its exception text may repeat a part of the task it was given.      *)
(***************************************************************************)

\* the part of the task text the agent may repeat: the login step
TaskEcho ==
    TaskLines(carrier, portalUrl, stdin.doc.clientData, stdin.doc.credentials)[9]

\* final answers: None, or a text
AgentAnswers ==
    { <<>>,
      <<"Annual premium: $1,200.00">>,
      <<"Quote ready: $89.50 per month">>,
      <<TaskEcho>> }

\* str(e) of an exception of agent.run()
AgentErrors ==
    { "401 unauthorized", "ETIMEDOUT", "unrecognized widget xyz",
      "net::ERR_CONNECTION_RESET", TaskEcho }

\* the faulty variant that reports completion before the extraction
AgentReturnsCompleteFirst ==
    /\ pc = "agent_run"
    /\ ~cancelPending
    /\ \E r \in AgentAnswers, tie_up \in BOOLEAN :
        /\ result' = r
        /\ Emit(<< ProgressEvent("Quote extraction complete", 100),
                   ProgressEvent("Extracting quote data", 85),
                   ResultEvent(TRUE, << extract_quote_data(r, carrier, tie_up) >>, <<>>) >>)
    /\ CoroutineReturns
    /\ UNCHANGED <<envVars, docVars, exc, task, agentBuilt, agentRuns, error_msg, capVars,
                   interrupts, cancelPending>>

\* lines 728-736
AgentReturns ==
    /\ pc = "agent_run"
    /\ ~cancelPending
    /\ \E r \in AgentAnswers, tie_up \in BOOLEAN :
        /\ result' = r
        /\ Emit(<< ProgressEvent("Extracting quote data", 85),
                   ProgressEvent("Quote extraction complete", 100),
                   ResultEvent(TRUE, << extract_quote_data(r, carrier, tie_up) >>, <<>>) >>)
    /\ CoroutineReturns
    /\ UNCHANGED <<envVars, docVars, exc, task, agentBuilt, agentRuns, error_msg, capVars,
                   interrupts, cancelPending>>

\* the faulty variant that reports the extraction milestone before it
\* handles the exception
AgentRaisesAfterMilestone ==
    /\ pc = "agent_run"
    /\ ~cancelPending
    /\ \E e \in AgentErrors :
        /\ error_msg' = <<e>>
        /\ Emit(<< ProgressEvent("Extracting quote data", 85),
                   ResultEvent(FALSE, <<>>, << ClassifyError(e) >>) >>)
    /\ CoroutineReturns
    /\ UNCHANGED <<envVars, docVars, exc, task, agentBuilt, agentRuns, result, capVars, interrupts,
                   cancelPending>>

\* lines 738-754
AgentRaises ==
    /\ pc = "agent_run"
    /\ ~cancelPending
    /\ \E e \in AgentErrors :
        /\ error_msg' = <<e>>
        /\ Emit(<< ResultEvent(FALSE, <<>>, << ClassifyError(e) >>) >>)
    /\ CoroutineReturns
    /\ UNCHANGED <<envVars, docVars, exc, task, agentBuilt, agentRuns, result, capVars, interrupts,
                   cancelPending>>

(***************************************************************************)
(* solve_captcha: lines 294-394.  Each action is one await completing and  *)
(* the code that runs up to the next await.                                *)
(***************************************************************************)

\* solve_captcha returns its ActionResult
DetectorReturns(outcome) ==
    /\ det' = [det EXCEPT !.outcome = <<outcome>>]
    /\ pc' = "det_ret"

\* the faulty variant without the except branch: the exception leaves
\* solve_captcha and the agent gets no ActionResult
DetectorRaises ==
    /\ det' = [det EXCEPT !.raised = TRUE,
                          !.queried = IF pc = "query"
                                      THEN Append(det.queried, Kinds[det.stage])
                                      ELSE det.queried]
    /\ pc' = "det_ret"
    /\ UNCHANGED <<stdout, flow>>

\* the except branch of solve_captcha, lines 390-394
DetectorCatches ==
    /\ det' = [det EXCEPT !.outcome = <<ExceptionResult>>,
                          !.raised = TRUE,
                          !.queried = IF pc = "query"
                                      THEN Append(det.queried, Kinds[det.stage])
                                      ELSE det.queried]
    /\ pc' = "det_ret"
    /\ UNCHANGED <<stdout, flow>>

\* lines 294-295: the agent invokes the action on the page it is on
SolveCaptchaStart ==
    /\ pc = "agent_run"
    /\ ~cancelPending
    /\ calls < MaxCaptchaCalls
    /\ \E pg \in Pages : det' = [IdleDet EXCEPT !.page = pg]
    /\ calls' = calls + 1
    /\ UNCHANGED flow
    /\ Emit(<< ProgressEvent("Checking for CAPTCHA...", 40) >>)
    /\ pc' = "query"
    /\ UNCHANGED <<envVars, docVars, runVars, exitCode, unhandled, interrupts, cancelPending>>

\* the next selector is queried (the hCaptcha one is the last)
QueryNext(d) == [d EXCEPT !.stage = d.stage + 1, !.elem = <<>>]

\* lines 299-300, 331-332, 349-350, 376-388: await page.query_selector(...)
Query ==
    /\ pc = "query"
    /\ ~cancelPending
    /\ \/ DetectorCatches
       \/ LET kind == Kinds[det.stage]
              found == QuerySelector(det.page, kind)
              asked == [det EXCEPT !.queried = Append(det.queried, kind)]
          IN  IF found = <<>>
              THEN IF kind = "hc"
                   THEN /\ det' = [asked EXCEPT !.outcome = << NoCaptchaResult >>]
                        /\ pc' = "det_ret"
                        /\ UNCHANGED <<stdout, flow>>
                   ELSE /\ det' = QueryNext(asked)
                        /\ pc' = "query"
                        /\ UNCHANGED <<stdout, flow>>
              ELSE IF kind = "hc"
                   THEN /\ det' = [asked EXCEPT
                                    !.matched = Append(asked.matched, kind),
                                    !.outcome = << ActionResult(FALSE,
                                        "hCaptcha detected but not yet supported. Manual intervention may be needed.") >>]
                        /\ Emit(<< ProgressEvent("hCaptcha detected - not yet supported", 41) >>)
                        /\ pc' = "det_ret"
                        /\ UNCHANGED flow
                   ELSE /\ det' = [asked EXCEPT !.matched = Append(asked.matched, kind),
                                                !.elem = found]
                        /\ pc' = "attr"
                        /\ UNCHANGED <<stdout, flow>>
    /\ UNCHANGED <<envVars, docVars, runVars, calls, exitCode, unhandled, interrupts, cancelPending>>

\* `if site_key:` for data-sitekey (None and "" are false); the v3 branch
\* tests src, which holds 'render=', and not the key it extracts
KeyAccepted(kind, key) == IF kind = "v3" THEN TRUE ELSE key # <<>> /\ key[1] # ""

\* the faulty variant of the start of a flow that posts createTask without
\* looking at the API key
FlowStartUnchecked(kind, site_key, has_key, resp) ==
    LET f == [IdleFlow EXCEPT !.kind = kind, !.siteKey = site_key]
    IN  IF resp.raised
        THEN [events |-> SolvingEvents(kind) \o ExceptionEvents(kind),
              flow |-> [f EXCEPT !.creates = 1, !.end = "create_exc"]]
        ELSE IF resp.errorId # 0
        THEN [events |-> SolvingEvents(kind) \o CreateErrorEvents(kind, resp),
              flow |-> [f EXCEPT !.creates = 1, !.end = "create_error"]]
        ELSE IF resp.taskId = ""
        THEN [events |-> SolvingEvents(kind),
              flow |-> [f EXCEPT !.creates = 1, !.end = "no_task"]]
        ELSE [events |-> SolvingEvents(kind),
              flow |-> [f EXCEPT !.creates = 1, !.taskId = resp.taskId]]

\* the faulty variant of the start of a flow without the test of the task
\* id (`if not task_id: return None`): the flow polls with what it got
FlowStartNoTaskCheck(kind, site_key, has_key, resp) ==
    LET f == [IdleFlow EXCEPT !.kind = kind, !.siteKey = site_key]
    IN  IF ~has_key
        THEN [events |-> NoKeyEvents(kind), flow |-> [f EXCEPT !.end = "nokey"]]
        ELSE IF resp.raised
        THEN [events |-> SolvingEvents(kind) \o ExceptionEvents(kind),
              flow |-> [f EXCEPT !.creates = 1, !.end = "create_exc"]]
        ELSE IF resp.errorId # 0
        THEN [events |-> SolvingEvents(kind) \o CreateErrorEvents(kind, resp),
              flow |-> [f EXCEPT !.creates = 1, !.end = "create_error"]]
        ELSE [events |-> SolvingEvents(kind),
              flow |-> [f EXCEPT !.creates = 1, !.taskId = resp.taskId]]

\* The start of a resolution flow up to its first suspension: the API key
\* check, the createTask request and the checks of its response (lines
\* 81-111, 163-192, 230-257).  Gives the events emitted and the flow's
\* locals; end # "" when the flow has returned (with no token).
FlowStart(kind, site_key, has_key, resp) ==
    LET f == [IdleFlow EXCEPT !.kind = kind, !.siteKey = site_key]
    IN  IF ~has_key
        THEN [events |-> NoKeyEvents(kind), flow |-> [f EXCEPT !.end = "nokey"]]
        ELSE IF resp.raised
        THEN [events |-> SolvingEvents(kind) \o ExceptionEvents(kind),
              flow |-> [f EXCEPT !.creates = 1, !.end = "create_exc"]]
        ELSE IF resp.errorId # 0
        THEN [events |-> SolvingEvents(kind) \o CreateErrorEvents(kind, resp),
              flow |-> [f EXCEPT !.creates = 1, !.end = "create_error"]]
        ELSE IF resp.taskId = ""
        THEN [events |-> SolvingEvents(kind),
              flow |-> [f EXCEPT !.creates = 1, !.end = "no_task"]]
        ELSE [events |-> SolvingEvents(kind),
              flow |-> [f EXCEPT !.creates = 1, !.taskId = resp.taskId]]

\* lines 301-304, 333-337, 351-354: await element.get_attribute(...), then
\* the detected kind's flow is called and runs to its first sleep
GetAttribute ==
    /\ pc = "attr"
    /\ ~cancelPending
    /\ \/ DetectorCatches
       \/ LET kind == Kinds[det.stage]
              key == SiteKeyOf(kind, det.elem[1])
          IN  IF ~KeyAccepted(kind, key)
              THEN /\ det' = QueryNext(det)
                   /\ pc' = "query"
                   /\ UNCHANGED <<stdout, flow>>
              ELSE \E resp \in CreateResponses :
                    LET st == FlowStart(kind, key[1], capsolverKey, resp)
                    IN  /\ Emit(DetectedEvents(kind) \o st.events)
                        /\ flow' = st.flow
                        /\ det' = [det EXCEPT !.invoked = Append(det.invoked, kind)]
                        /\ pc' = IF st.flow.end = "" THEN "poll" ELSE "flow_ret"
    /\ UNCHANGED <<envVars, docVars, runVars, calls, exitCode, unhandled, interrupts, cancelPending>>

\* The end of an iteration that met no terminal status (lines 139-144,
\* 213, 278): the progress report of solve_recaptcha_v2, then the next
\* iteration, or the return after the last one.  g holds the flow's locals,
\* ready says that the response was a "ready" without a token.
PollGoesOn(g, ready) ==
    IF g.attempt + 1 < PollAttempts(g.kind)
    THEN [events |-> PollEvents(g.kind, g.attempt),
          flow |-> [g EXCEPT !.attempt = g.attempt + 1,
                             !.readySeen = g.readySeen \/ ready]]
    ELSE [events |-> PollEvents(g.kind, g.attempt) \o TimedOutEvents(g.kind),
          flow |-> [g EXCEPT !.end = "timeout",
                             !.readySeen = g.readySeen \/ ready]]

\* the faulty variant that takes status "failed" for one more "processing"
PollFailedGoesOn(g) == PollGoesOn(g, FALSE)

\* lines 135-137, 210-211, 275-276: status "failed"
PollFailed(g) ==
    [events |-> FailedEvents(g.kind), flow |-> [g EXCEPT !.end = "failed"]]

\* the faulty variant that swallows the exception of a poll inside the loop
\* and tries again
PollRaisedGoesOn(g) == PollGoesOn(g, FALSE)

\* lines 146-148, 215-216, 280-281: the request or the decoding of its
\* response raised
PollRaised(g) ==
    [events |-> ExceptionEvents(g.kind), flow |-> [g EXCEPT !.end = "poll_exc"]]

\* One iteration of a polling loop (lines 114-144, 195-213, 260-278): the
\* sleep ends, getTaskResult is posted and its response handled.  Gives the
\* events emitted and the flow's locals (last: how the latest poll ended).
PollStep(f, resp) ==
    LET g == [f EXCEPT !.sleeps = f.sleeps + 1, !.polls = f.polls + 1,
                       !.sent = f.taskId,
                       !.last = IF resp.raised THEN "raised" ELSE resp.status]
    IN  IF resp.raised
        THEN PollRaised(g)
        ELSE IF resp.status = "ready" /\ resp.token # ""
        THEN [events |-> SolvedEvents(f.kind),
              flow |-> [g EXCEPT !.end = "ready", !.token = resp.token]]
        ELSE IF resp.status = "failed"
        THEN PollFailed(g)
        ELSE PollGoesOn(g, resp.status = "ready")

Poll ==
    /\ pc = "poll"
    /\ ~cancelPending
    /\ \E resp \in PollResponses :
        LET st == PollStep(flow, resp)
        IN  /\ Emit(st.events)
            /\ flow' = st.flow
            /\ pc' = IF st.flow.end = "" THEN "poll" ELSE "flow_ret"
    /\ UNCHANGED <<envVars, docVars, runVars, calls, det, exitCode, unhandled, interrupts, cancelPending>>

\* the ActionResult for a flow that gave no token: lines 324-328, 369-373
NoTokenResult(kind) ==
    IF kind = "v2" THEN ActionResult(FALSE, "Failed to solve reCAPTCHA v2")
    ELSE ActionResult(FALSE, "Failed to solve Turnstile")

\* a flow without an else branch for "no token" falls through to the next
\* selector: the v3 branch, lines 338-346
FallsThrough(kind) == kind = "v3"

\* lines 305, 338, 355: the flow has returned to solve_captcha
FlowReturn ==
    /\ pc = "flow_ret"
    /\ IF flow.token # ""
       THEN pc' = "inject" /\ UNCHANGED det
       ELSE IF FallsThrough(flow.kind)
       THEN det' = QueryNext(det) /\ pc' = "query"
       ELSE DetectorReturns(NoTokenResult(flow.kind))
    /\ UNCHANGED <<envVars, docVars, runVars, calls, flow, stdout, exitCode, unhandled,
                   interrupts, cancelPending>>

\* lines 307-323, 340-346, 357-368: await page.evaluate(...) sets the token
Inject ==
    /\ pc = "inject"
    /\ ~cancelPending
    /\ \/ DetectorCatches
       \/ /\ det' = [det EXCEPT
                        !.injected = Append(det.injected, <<flow.kind, flow.token>>),
                        !.outcome = << InjectedResult(flow.kind) >>]
          /\ pc' = "det_ret"
          /\ UNCHANGED <<stdout, flow>>
    /\ UNCHANGED <<envVars, docVars, runVars, calls, exitCode, unhandled, interrupts, cancelPending>>

\* The controller hands the ActionResult to the agent, which goes on with
\* its run; the locals of solve_captcha and of the flow are gone.
ActionReturns ==
    /\ pc = "det_ret"
    /\ pc' = "agent_run"
    /\ det' = IdleDet
    /\ flow' = IdleFlow
    /\ UNCHANGED <<envVars, docVars, runVars, calls, stdout, exitCode, unhandled, interrupts,
                   cancelPending>>

(***************************************************************************)
(* Interrupts (SIGINT).  Outside asyncio.run a KeyboardInterrupt is raised *)
(* where the process is.  Inside asyncio.run (Python 3.11+) the first      *)
(* SIGINT cancels the main task: CancelledError is raised at the await the *)
(* task is suspended in (or reaches next), passes every `except Exception` *)
(* and asyncio.run raises KeyboardInterrupt; a further SIGINT, or one that *)
(* arrives when the task is done, raises KeyboardInterrupt at once.        *)
(***************************************************************************)

\* suspended in an await (or scheduled and not yet started)
AwaitPcs == {"rb_init", "agent_run", "query", "attr", "poll", "inject"}
\* running between two awaits
SyncPcs == {"rb_build", "rb_agent", "flow_ret", "det_ret"}
\* in main, outside the try of lines 851-864, or inside an except branch
MainPcs == {"start", "read_stdin", "exc_handler", "kbd_handler"}

Interrupt ==
    /\ pc # "exit"
    /\ interrupts < MaxInterrupts
    /\ interrupts' = interrupts + 1
    /\ CASE pc \in MainPcs ->
                \* KeyboardInterrupt leaves main uncaught: the interpreter
                \* dies of SIGINT, with no exit code of its own
                /\ pc' = "exit"
                /\ unhandled' = TRUE
                /\ UNCHANGED cancelPending
         [] pc \in AwaitPcs \cup SyncPcs ->
                IF cancelPending
                THEN pc' = "kbd_handler" /\ cancelPending' = FALSE /\ UNCHANGED unhandled
                ELSE cancelPending' = TRUE /\ UNCHANGED <<pc, unhandled>>
         [] pc = "loop_close" ->
                pc' = "kbd_handler" /\ UNCHANGED <<cancelPending, unhandled>>
    /\ UNCHANGED <<envVars, docVars, runVars, capVars, stdout, exitCode>>

\* the faulty variant in which `except Exception` of a resolution flow also
\* catches the cancellation raised in its polling loop: the flow gives no
\* token and the run goes on
DeliverCancelCaught ==
    /\ cancelPending
    /\ pc \in AwaitPcs
    /\ cancelPending' = FALSE
    /\ IF pc = "poll"
       THEN /\ Emit(PollRaised(flow).events)
            /\ flow' = PollRaised(flow).flow
            /\ pc' = "flow_ret"
            /\ UNCHANGED <<calls, det>>
       ELSE pc' = "kbd_handler" /\ UNCHANGED <<capVars, stdout>>
    /\ UNCHANGED <<envVars, docVars, runVars, exitCode, unhandled, interrupts>>

\* the cancellation reaches the coroutine at an await and ends asyncio.run
\* with KeyboardInterrupt: main's handler of lines 859-861 is entered
DeliverCancel ==
    /\ cancelPending
    /\ pc \in AwaitPcs
    /\ pc' = "kbd_handler"
    /\ cancelPending' = FALSE
    /\ UNCHANGED <<envVars, docVars, runVars, capVars, stdout, exitCode, unhandled, interrupts>>

(***************************************************************************)
(* Specifications.                                                         *)
(***************************************************************************)

\* every step of the process but the arrival of an interrupt
Step ==
    \/ MainStart
    \/ ReadInput
    \/ RunInit
    \/ RunBuildTask
    \/ RunStartAgent
    \/ SolveCaptchaStart
    \/ Query
    \/ GetAttribute
    \/ Poll
    \/ FlowReturn
    \/ Inject
    \/ ActionReturns
    \/ AgentReturns
    \/ AgentRaises
    \/ LoopReturn
    \/ ExceptionHandler

Next ==
    \/ Step
    \/ Interrupt
    \/ DeliverCancel
    \/ KeyboardInterruptHandler

Spec == Init /\ [][Next]_vars

\* the process with no interrupt, under the scheduling the event loop gives:
\* a step that can be taken is eventually taken
FairSpec == Init /\ [][Step]_vars /\ WF_vars(Step)

(***************************************************************************)
(* build_navigation_task on its own: the inputs are drawn from the sets    *)
(* below and the function is applied once.                                 *)
(***************************************************************************)

TaskUsernames == {<<"bob">>, <<"alice">>, <<>>}
TaskPasswords == {"s3cret", "bob", "provided"}
TaskMfaCodes == {<<>>, <<"123456">>, <<"bob">>}
TaskCarriers == {"progressive", "s3cret"}
TaskPortalUrls == {"https://agents.progressive.com", "https://portal.test/123456"}
ClientSecret ==
    [personal |-> << [firstName |-> "s3cret", email |-> "j@x.io"] >>,
     property |-> <<>>, auto |-> <<>>, drivers |-> <<>>]
TaskClients == {NoClient, ClientJane, ClientSecret}

TaskInit ==
    /\ stdin \in { Stdin("json", JsonObject(ValidKeys, Creds(u, p, m), c)) :
                     u \in TaskUsernames, p \in TaskPasswords,
                     m \in TaskMfaCodes, c \in TaskClients }
    /\ anthropicKey = TRUE
    /\ capsolverKey = FALSE
    /\ carrier \in TaskCarriers
    /\ portalUrl \in TaskPortalUrls
    /\ pc = "compile"
    /\ stdout = <<>>
    /\ exitCode = <<>>
    /\ unhandled = FALSE
    /\ interrupts = 0
    /\ cancelPending = FALSE
    /\ exc = ""
    /\ task = ""
    /\ agentBuilt = FALSE
    /\ agentRuns = 0
    /\ error_msg = <<>>
    /\ result = <<>>
    /\ calls = 0
    /\ det = IdleDet
    /\ flow = IdleFlow
    /\ DocIdle

\* task = build_navigation_task(carrier, portal_url, client_data, credentials)
CompileTask ==
    /\ pc = "compile"
    /\ IF BuildTaskRaises(stdin.doc.credentials)
       THEN pc' = "raised" /\ exc' = KeyErrorText /\ UNCHANGED task
       ELSE /\ task' = build_navigation_task(carrier, portalUrl,
                            stdin.doc.clientData, stdin.doc.credentials)
            /\ pc' = "compiled"
            /\ UNCHANGED exc
    /\ UNCHANGED <<envVars, docVars, agentBuilt, agentRuns, error_msg, result, capVars, stdout,
                   exitCode, unhandled, interrupts, cancelPending>>

TaskSpec == TaskInit /\ [][CompileTask]_vars

(***************************************************************************)
(* The Error Classifier on its own: the exception text is drawn from the   *)
(* set below and the except branch of run_browser_use is applied once.     *)
(***************************************************************************)

MessageParts ==
    { "Login", "Password", "CAPTCHA", "challenge", "Selector", "form changed",
      "timeout", "Timed Out", "ETIMEDOUT", "connection", "Network", "503",
      "502", "widget" }

ClassifyMessages ==
    { a \o " " \o b : a \in MessageParts, b \in MessageParts }
        \cup MessageParts
        \cup { "", "401 unauthorized", "unrecognized widget xyz" }

ClassifyInit ==
    /\ stdin = Stdin("json", JsonObject(ValidKeys, CredsBob, ClientJane))
    /\ anthropicKey = TRUE
    /\ capsolverKey = FALSE
    /\ carrier \in Carriers
    /\ portalUrl \in PortalUrls
    /\ pc = "agent_raised"
    /\ stdout = <<>>
    /\ exitCode = <<>>
    /\ unhandled = FALSE
    /\ interrupts = 0
    /\ cancelPending = FALSE
    /\ exc \in ClassifyMessages
    /\ task = ""
    /\ agentBuilt = TRUE
    /\ agentRuns = 1
    /\ error_msg = <<>>
    /\ result = <<>>
    /\ calls = 0
    /\ det = IdleDet
    /\ flow = IdleFlow
    /\ DocIdle

\* lines 738-754 for the exception whose text is exc
Classify ==
    /\ pc = "agent_raised"
    /\ error_msg' = <<exc>>
    /\ Emit(<< ResultEvent(FALSE, <<>>, << ClassifyError(exc) >>) >>)
    /\ pc' = "classified"
    /\ UNCHANGED <<envVars, docVars, exc, task, agentBuilt, agentRuns, result, capVars, exitCode,
                   unhandled, interrupts, cancelPending>>

ClassifySpec == ClassifyInit /\ [][Classify]_vars

(***************************************************************************)
(* Quote Extraction on its own: the agent's result is drawn from the set   *)
(* below and lines 730-736 of run_browser_use are applied once.            *)
(***************************************************************************)

\* an amount as it is written in the text, and its value mant / 10^exp
Amount(txt, mant, exp) == [txt |-> txt, val |-> [mant |-> mant, exp |-> exp]]

Amounts ==
    { Amount("1,200.00", 1200, 0),
      Amount("1000", 1000, 0),
      Amount("89.50", 895, 1),
      Amount("1.5", 15, 1),
      Amount("0.00", 0, 0),
      Amount("0", 0, 0) }

\* phrasings of an annual and of a monthly premium
AnnualPhrases(v) ==
    { "Annual premium: $" \o v,
      "yearly " \o v,
      "per year: $" \o v,
      "$" \o v \o " per year",
      v \o " annually" }

MonthlyPhrases(v) ==
    { "Monthly premium: $" \o v,
      "per month " \o v,
      "$" \o v \o " per month",
      v \o " month" }

\* a text with the premiums it states (<<>>: not stated)
ExtractCase(text, annual, monthly) ==
    [text |-> text, annual |-> annual, monthly |-> monthly]

AnnualOnlyCases ==
    UNION { { ExtractCase(p, <<a.val>>, <<>>) : p \in AnnualPhrases(a.txt) } :
            a \in Amounts }

MonthlyOnlyCases ==
    UNION { { ExtractCase(p, <<>>, <<m.val>>) : p \in MonthlyPhrases(m.txt) } :
            m \in Amounts }

BothCases ==
    UNION { UNION { { ExtractCase(c.text \o "; " \o d.text, c.annual, d.monthly),
                      ExtractCase(d.text \o "; " \o c.text, c.annual, d.monthly) } :
                    d \in MonthlyOnlyCases } :
            c \in AnnualOnlyCases }

ExtractCases == AnnualOnlyCases \cup MonthlyOnlyCases \cup BothCases

\* s \o s \o ... (2^n copies)
RECURSIVE Doubled(_, _)
Doubled(s, n) == IF n = 0 THEN s ELSE Doubled(s \o s, n - 1)

\* a text longer than the limit of agentResponse (27 + 2048 characters)
LongText == "Annual premium: $1,200.00. " \o Doubled("lorem ip", 8)

\* what agent.run() may return: None, an empty text, a text without a
\* premium, a text with a number that is none, the long text, the cases
ExtractResults ==
    { <<>>, <<"">>, <<"The portal showed no quote.">>, <<"annual: , per month ,">>,
      <<LongText>> }
        \cup { <<c.text>> : c \in ExtractCases }

ExtractInit ==
    /\ stdin = Stdin("json", JsonObject(ValidKeys, CredsBob, ClientJane))
    /\ anthropicKey = TRUE
    /\ capsolverKey = FALSE
    /\ carrier \in Carriers
    /\ portalUrl \in PortalUrls
    /\ pc = "agent_returned"
    /\ stdout = <<>>
    /\ exitCode = <<>>
    /\ unhandled = FALSE
    /\ interrupts = 0
    /\ cancelPending = FALSE
    /\ exc = ""
    /\ task = ""
    /\ agentBuilt = TRUE
    /\ agentRuns = 1
    /\ error_msg = <<>>
    /\ result \in ExtractResults
    /\ calls = 0
    /\ det = IdleDet
    /\ flow = IdleFlow
    /\ DocIdle

\* lines 730-736 for the result the agent returned
Extract ==
    /\ pc = "agent_returned"
    /\ \E tie_up \in BOOLEAN :
        Emit(<< ProgressEvent("Extracting quote data", 85),
                ProgressEvent("Quote extraction complete", 100),
                ResultEvent(TRUE, << extract_quote_data(result, carrier, tie_up) >>, <<>>) >>)
    /\ pc' = "extracted"
    /\ UNCHANGED <<envVars, docVars, runVars, capVars, exitCode, unhandled, interrupts,
                   cancelPending>>

ExtractSpec == ExtractInit /\ [][Extract]_vars

(***************************************************************************)
(* inject_page_markers on its own: the markdown is a concatenation of up   *)
(* to MaxParts pieces (text, white space, placeholders) and the function   *)
(* is applied once, as the parse endpoint does at lines 169-172.           *)
(***************************************************************************)

MaxParts == 4

Placeholders == {DoclingPlaceholder, "|", ""}

MarkdownParts == {"Intro", " ", "\n", "|", DoclingPlaceholder}

RECURSIVE Markdowns(_)
Markdowns(n) ==
    IF n = 0 THEN {""}
    ELSE Markdowns(n - 1) \cup {m \o part : m \in Markdowns(n - 1), part \in MarkdownParts}

PagesInit ==
    /\ stdin = Stdin("json", JsonObject(ValidKeys, CredsBob, ClientJane))
    /\ anthropicKey = TRUE
    /\ capsolverKey = FALSE
    /\ carrier \in Carriers
    /\ portalUrl \in PortalUrls
    /\ pc = "exported"
    /\ stdout = <<>>
    /\ exitCode = <<>>
    /\ unhandled = FALSE
    /\ interrupts = 0
    /\ cancelPending = FALSE
    /\ exc = ""
    /\ task = ""
    /\ agentBuilt = FALSE
    /\ agentRuns = 0
    /\ error_msg = <<>>
    /\ result = <<>>
    /\ calls = 0
    /\ det = IdleDet
    /\ flow = IdleFlow
    /\ markdown \in Markdowns(MaxParts)
    /\ placeholder \in Placeholders
    /\ parsed = <<>>

\* markdown, page_markers, page_count = inject_page_markers(markdown, placeholder);
\* str.split raises ValueError("empty separator") for an empty placeholder
InjectPageMarkers ==
    /\ pc = "exported"
    /\ IF placeholder = ""
       THEN pc' = "parse_raised" /\ UNCHANGED parsed
       ELSE /\ parsed' = << inject_page_markers(markdown, placeholder) >>
            /\ pc' = "parsed"
    /\ UNCHANGED <<envVars, runVars, capVars, markdown, placeholder, stdout, exitCode,
                   unhandled, interrupts, cancelPending>>

PagesSpec == PagesInit /\ [][InjectPageMarkers]_vars

(***************************************************************************)
(* Properties.                                                             *)
(***************************************************************************)

IsResult(e) == e.type = "result"
IsProgress(e) == e.type = "progress"
ResultIndexes == {k \in 1..Len(stdout) : IsResult(stdout[k])}
ResultCount == Cardinality(ResultIndexes)
LastEvent == stdout[Len(stdout)]

\* C1: in every reachable state of a run at most one Result Event has been
\* written to stdout, on every path, an interrupt arriving after
\* run_browser_use emitted its result included.
C1_AtMostOneResult == ResultCount <= 1

\* the run is over, one Result Event was written and it is the last line
EndedWithOneFinalResult ==
    /\ pc = "exit"
    /\ ResultCount = 1
    /\ IsResult(LastEvent)

\* C2: for a valid Session Input and no interrupt, whichever way the run
\* ends, the process eventually terminates having emitted exactly one
\* Result Event, and that event is the last line written to stdout.
C2_ExactlyOneFinalResult ==
    IsSessionInput(stdin) => <>[]EndedWithOneFinalResult

\* a run on a valid Session Input in which the agent used the CAPTCHA action
\* and returned an answer has ended with its one Result Event last
C2_Witness ==
    /\ IsSessionInput(stdin)
    /\ EndedWithOneFinalResult
    /\ LastEvent.success
    /\ calls >= 1

\* C3: no Progress Event is written after the Result Event, and every
\* Progress Event of every component carries a progress value in 0..100.
C3_ProgressWellFormed ==
    LET results == ResultIndexes
    IN  \A k \in 1..Len(stdout) :
            IsProgress(stdout[k]) =>
                /\ stdout[k].progress \in 0..100
                /\ \A j \in results : k < j

\* the reCAPTCHA v2 flow polled up to its last reporting index and the run
\* went on to its Result Event
C3_Witness ==
    /\ ResultCount >= 1
    /\ \E k \in 1..Len(stdout) :
        /\ IsProgress(stdout[k])
        /\ stdout[k].progress = PollProgress(PollAttemptsV2 - 1)

\* C4: for every stdin content that is not a valid Session Input (empty,
\* blank, not JSON, or a JSON document of any type without the top-level
\* field credentials or clientData) the process, when not interrupted, emits
\* exactly one Result Event with success=false and an error, never
\* constructs or runs the agent, lets no exception escape unhandled, and
\* exits with code 1.
C4_MalformedInputRejected ==
    (~IsSessionInput(stdin) /\ interrupts = 0) =>
        /\ ~agentBuilt
        /\ agentRuns = 0
        /\ ~unhandled
        /\ pc = "exit" =>
            /\ exitCode = <<1>>
            /\ ResultCount = 1
            /\ \A k \in ResultIndexes : ~stdout[k].success /\ stdout[k].error # <<>>

\* main returned a code (no exception left it)
MainReturned == pc = "exit" /\ exitCode # <<>> /\ ~unhandled

\* C5: the exit code main returns is determined by how the run ended: 130
\* when the run was interrupted, 1 when the input was malformed or an
\* exception left run_browser_use, 0 when run_browser_use completed; and in
\* each case a Result Event has been emitted before main returns.
C5_ExitCodeByEnding ==
    MainReturned =>
        /\ ResultCount >= 1
        /\ exitCode = << IF interrupts > 0 THEN 130
                         ELSE IF ~IsSessionInput(stdin) \/ exc # "" THEN 1
                         ELSE 0 >>

\* C6: an interrupt arriving at any point between process start and process
\* exit terminates the process with a final Result Event with success=false
\* and the error "Process interrupted", and with exit code 130.
C6_InterruptReported ==
    (pc = "exit" /\ interrupts > 0) =>
        /\ stdout # <<>>
        /\ LastEvent = ResultEvent(FALSE, <<>>, <<"Process interrupted">>)
        /\ exitCode = <<130>>

\* the password and the MFA code of credentials
Secrets(credentials) ==
    {credentials.password} \cup {credentials.mfaCode[k] : k \in 1..Len(credentials.mfaCode)}

\* credentials with the password emptied and the MFA code removed
WithoutSecrets(credentials) == Creds(credentials.username, "", <<>>)

CredentialValues ==
    IF IsSessionInput(stdin)
    THEN { stdin.doc.credentials.username[k] : k \in 1..Len(stdin.doc.credentials.username) }
            \cup Secrets(stdin.doc.credentials)
    ELSE {}

\* the step, error and data texts of an event
EventTexts(e) ==
    IF IsProgress(e) THEN {e.step}
    ELSE { e.error[k] : k \in 1..Len(e.error) }
            \cup UNION { { e.data[k].rawExtractedData.agentResponse[j] :
                             j \in 1..Len(e.data[k].rawExtractedData.agentResponse) } :
                         k \in 1..Len(e.data) }

\* C8: no Progress Event or Result Event of any run contains a credential
\* value of the Session Input (username, password, mfaCode) in its step,
\* error or data fields, where the agent may put any part of the compiled
\* task text into its final answer or its exception message.
C8_NoCredentialInEvents ==
    \A k \in 1..Len(stdout) :
        \A t \in EventTexts(stdout[k]) :
            \A v \in CredentialValues : ~Contains(t, v)

\* C9: solve_captcha stops at the first kind whose marker is present: after
\* a marker has matched no lower-priority marker is queried and no second
\* resolution flow is invoked in the same call, whatever the outcome for
\* the matched kind.
C9_FirstMatchWins ==
    /\ Len(det.matched) <= 1
    /\ Len(det.invoked) <= 1
    /\ det.matched # <<>> => det.queried[Len(det.queried)] = det.matched[1]

\* no selector of solve_captcha matches an element of the page
NoMarker(pg) == \A k \in 1..Len(Kinds) : QuerySelector(pg, Kinds[k]) = <<>>

\* solve_captcha is running or has just returned
InDetector == pc \in {"query", "attr", "poll", "flow_ret", "inject", "det_ret"}

\* C10: on a page with no matching marker of any kind solve_captcha invokes
\* no resolution flow, makes no provider request and injects nothing, and
\* (its page queries completing) returns the success outcome "No CAPTCHA
\* detected on this page".
C10_NoMarkerNoChallenge ==
    (InDetector /\ NoMarker(det.page)) =>
        /\ det.invoked = <<>>
        /\ flow.creates = 0
        /\ flow.polls = 0
        /\ det.injected = <<>>
        /\ (pc = "det_ret" /\ ~det.raised) =>
                det.outcome = << ActionResult(TRUE, "No CAPTCHA detected on this page") >>

\* solve_captcha has returned from a page that holds an element and no
\* marker, all four selectors queried
C10_Witness ==
    /\ pc = "det_ret"
    /\ det.page = <<E_plain>>
    /\ NoMarker(det.page)
    /\ ~det.raised
    /\ Len(det.queried) = Len(Kinds)
    /\ det.outcome # <<>>

\* an element is the unsupported challenge kind: class h-captcha, or a
\* data-sitekey element whose class contains "hcaptcha"
IsHCaptchaElement(e) ==
    "h-captcha" \in e.cls \/ (HasKey(e) /\ ClassContains(e, "hcaptcha"))

\* an element is a marker of a supported kind: a reCAPTCHA v2 widget (A), a
\* reCAPTCHA v3 script reference (B) or a Turnstile widget (C)
IsSupportedMarker(e) ==
    \/ "g-recaptcha" \in e.cls
    \/ (e.tag = "script" /\ Contains(e.src, "recaptcha/api.js?render="))
    \/ "cf-turnstile" \in e.cls
    \/ (HasKey(e) /\ ClassContains(e, "turnstile"))
    \/ (HasKey(e) /\ ~IsHCaptchaElement(e))

\* the page presents an hCaptcha element and no marker of kinds A, B or C
OnlyUnsupported(pg) ==
    /\ \E k \in 1..Len(pg) : IsHCaptchaElement(pg[k])
    /\ \A k \in 1..Len(pg) : ~IsSupportedMarker(pg[k])

\* C11: whenever the page presents an hCaptcha element and no marker of
\* kinds A, B or C, solve_captcha invokes no resolution flow, makes no
\* provider request and (its page operations completing) reports a failure
\* outcome.
C11_UnsupportedReported ==
    (InDetector /\ OnlyUnsupported(det.page)) =>
        /\ det.invoked = <<>>
        /\ flow.creates = 0
        /\ flow.polls = 0
        /\ (pc = "det_ret" /\ ~det.raised) =>
                /\ det.outcome # <<>>
                /\ ~det.outcome[1].success

\* C12: solve_captcha never raises to its caller: every call ends with an
\* ActionResult, and when a page query, an attribute read or a token
\* injection raised, that result is a failure whose error carries the
\* exception text (a resolution flow catches its own exceptions and gives
\* no token).
C12_NeverRaises ==
    /\ pc = "det_ret" => det.outcome # <<>>
    /\ det.raised =>
        /\ det.outcome # <<>>
        /\ ~det.outcome[1].success
        /\ Contains(det.outcome[1].text, PageErrorText)

\* page.evaluate raised while a solved token was being injected, and
\* solve_captcha returned
C12_Witness ==
    /\ pc = "det_ret"
    /\ det.raised
    /\ flow.token # ""
    /\ det.injected = <<>>
    /\ det.outcome = << ActionResult(FALSE, "Error checking for CAPTCHA: " \o PageErrorText) >>

\* a solve_* flow has been called in the current solve_captcha call
FlowCalled == flow.kind # ""

\* C13: when no provider credential is configured, each of the three flows
\* returns no token without a createTask or getTaskResult request and
\* without sleeping.
C13_NoCredentialNoRequest ==
    (~capsolverKey /\ FlowCalled) =>
        /\ flow.end = "nokey"
        /\ flow.token = ""
        /\ flow.creates = 0
        /\ flow.polls = 0
        /\ flow.sleeps = 0
        /\ pc \notin {"poll", "inject"}

\* with no credential, the reCAPTCHA v3 flow and then the Turnstile flow
\* were called on one page and both returned at once
C13_Witness ==
    /\ ~capsolverKey
    /\ pc = "flow_ret"
    /\ det.invoked = <<"v3", "ts">>
    /\ flow.kind = "ts"
    /\ flow.end = "nokey"

\* the attempts the claim allows each flow
ClaimedAttempts(kind) == IF kind = "v3" THEN 30 ELSE 60

\* what a flow has done so far is within its limits
FlowWithinLimits ==
    FlowCalled =>
        /\ flow.creates <= 1
        /\ flow.polls <= ClaimedAttempts(flow.kind)
        /\ flow.sleeps = flow.polls
        /\ flow.polls > 0 => flow.creates = 1
        /\ flow.end = "timeout" =>
                flow.polls = ClaimedAttempts(flow.kind) /\ flow.token = ""

\* C14: every invocation of a resolution flow terminates: it issues at most
\* one createTask request and at most 60 (v2, Turnstile) or 30 (v3)
\* getTaskResult requests, each after one sleep, and when all attempts are
\* used without a terminal status it returns no token.
C14_FlowTerminates ==
    /\ []FlowWithinLimits
    /\ (pc = "poll") ~> (pc = "flow_ret")

\* the reCAPTCHA v3 flow used all of its 30 attempts and returned no token
C14_Witness ==
    /\ pc = "flow_ret"
    /\ flow.kind = "v3"
    /\ flow.end = "timeout"
    /\ flow.polls = 30
    /\ flow.sleeps = 30
    /\ flow.token = ""

\* C15: in each of the three flows the first poll response whose status is
\* "ready" ends polling, for every shape of ready response: no flow goes on
\* polling after it has seen a "ready" response.
C15_ReadyEndsPolling ==
    FlowCalled => ~flow.readySeen

\* C16: a poll response with status "failed" makes the flow return no token
\* immediately: the flow is no longer polling, and as long as its locals
\* exist no further sleep and no further getTaskResult request is made,
\* whatever the number of attempts remaining.
C16_FailedReturnsAtOnce ==
    /\ [](flow.last = "failed" =>
            (flow.end = "failed" /\ flow.token = "" /\ pc \notin {"poll", "inject"}))
    /\ [][(flow.last = "failed" /\ flow'.last = "failed") =>
              (flow'.polls = flow.polls /\ flow'.sleeps = flow.sleeps)]_vars

\* the Turnstile flow returned on a "failed" response to its first poll,
\* with 59 attempts left
C16_Witness ==
    /\ pc = "flow_ret"
    /\ flow.kind = "ts"
    /\ flow.last = "failed"
    /\ flow.end = "failed"
    /\ flow.polls = 1
    /\ flow.attempt = 0
    /\ flow.token = ""

\* a provider request of the current flow raised
RequestRaised == flow.end = "create_exc" \/ flow.last = "raised"

\* C17: every exception raised during createTask or during a getTaskResult
\* poll of any of the three flows is caught inside the flow and turned into
\* "no token": the flow returns to its caller with no token, and makes no
\* further provider request after the exception (a later flow of another
\* kind in the same solve_captcha call has locals of its own).
C17_RequestExceptionsCaught ==
    /\ [](RequestRaised =>
            /\ flow.end \in {"create_exc", "poll_exc"}
            /\ flow.token = ""
            /\ pc \notin {"poll", "inject"}
            /\ flow.end = "create_exc" => flow.polls = 0)
    /\ [](pc = "flow_ret" =>
            (flow.token = "" \/ (flow.end = "ready" /\ flow.last = "ready")))
    /\ [][(RequestRaised /\ RequestRaised' /\ flow'.kind = flow.kind) =>
              (flow'.polls = flow.polls /\ flow'.creates = flow.creates)]_vars

\* the reCAPTCHA v3 flow returned no token when its second poll raised
C17_Witness ==
    /\ pc = "flow_ret"
    /\ flow.kind = "v3"
    /\ flow.last = "raised"
    /\ flow.end = "poll_exc"
    /\ flow.polls = 2
    /\ flow.token = ""

\* the milestones of the supervisor, as the claim lists them
ClaimedMilestones ==
    << ProgressEvent("Initializing Browser Use agent", 5),
       ProgressEvent("Building navigation task", 10),
       ProgressEvent("Starting browser automation", 15),
       ProgressEvent("Navigating to carrier portal", 25),
       ProgressEvent("Logging into portal", 35),
       ProgressEvent("Filling quote form", 50),
       ProgressEvent("Extracting quote data", 85),
       ProgressEvent("Quote extraction complete", 100) >>

\* a Progress Event with the step text or the progress value of a milestone
IsMilestone(e) ==
    /\ IsProgress(e)
    /\ \E k \in 1..Len(ClaimedMilestones) :
          \/ e.step = ClaimedMilestones[k].step
          \/ e.progress = ClaimedMilestones[k].progress

SuccessIndexes == {k \in ResultIndexes : stdout[k].success}

\* C18: in a run where the agent completes successfully, the milestone
\* Progress Events appear on stdout exactly once each and in the order
\* initializing, building task, starting automation, navigating, logging
\* in, filling form, extracting data, complete, with progress 5, 10, 15, 25,
\* 35, 50, 85, 100, and the success Result Event follows the 100 milestone
\* with no other event in between.
C18_MilestonesInOrder ==
    SuccessIndexes # {} =>
        /\ SelectSeq(stdout, IsMilestone) = ClaimedMilestones
        /\ \A k \in SuccessIndexes :
              k > 1 /\ stdout[k - 1] = ClaimedMilestones[Len(ClaimedMilestones)]

\* a run has ended with success after the agent used the CAPTCHA action, so
\* that other Progress Events lie between the milestones
C18_Witness ==
    /\ pc = "exit"
    /\ SuccessIndexes # {}
    /\ calls >= 1
    /\ Len(stdout) > Len(ClaimedMilestones) + 2

\* the Result Event main writes when the process is interrupted
InterruptedResult == ResultEvent(FALSE, <<>>, <<"Process interrupted">>)

\* the Result Events of the supervisor (all but the interrupt report of main)
SupervisorResults == {k \in ResultIndexes : stdout[k] # InterruptedResult}

\* C19: on any exception raised by agent.run the supervisor emits exactly
\* one failure Result Event, whose error is the Error Classifier's output
\* for the exception text, and neither the "extracting data" (85) nor the
\* "complete" (100) milestone; and agent.run is invoked at most once per
\* process in every run.
C19_AgentFailureReportedOnce ==
    /\ agentRuns <= 1
    /\ error_msg # <<>> =>
        /\ agentRuns = 1
        /\ Cardinality(SupervisorResults) = 1
        /\ \A k \in SupervisorResults :
              stdout[k] = ResultEvent(FALSE, <<>>, << ClassifyError(error_msg[1]) >>)
        /\ \A k \in 1..Len(stdout) :
              IsProgress(stdout[k]) =>
                  /\ stdout[k].progress \notin {85, 100}
                  /\ stdout[k].step \notin {"Extracting quote data",
                                            "Quote extraction complete"}

\* agent.run raised a timeout error after the agent had used the CAPTCHA
\* action, and the process has exited
C19_Witness ==
    /\ pc = "exit"
    /\ error_msg = <<"ETIMEDOUT">>
    /\ calls >= 1
    /\ agentRuns = 1
    /\ ResultCount = 1

\* the five keyword groups in their priority order, each with its prefix
ClaimedGroups ==
    << [terms |-> AuthTerms, prefix |-> "login failed: "],
       [terms |-> CaptchaTerms, prefix |-> "captcha detected: "],
       [terms |-> SelectorTerms, prefix |-> "element not found: "],
       [terms |-> TimeoutTerms, prefix |-> "timeout: "],
       [terms |-> ConnectionTerms, prefix |-> "connection failed: "] >>

\* the groups of which a term occurs in the lower-cased message
MatchingGroups(msg) ==
    {g \in 1..Len(ClaimedGroups) :
        \E term \in ClaimedGroups[g].terms : Contains(Lower(msg), term)}

\* the error string the claim prescribes for a message
ClaimedError(msg, groups) ==
    IF groups = {} THEN msg
    ELSE ClaimedGroups[CHOOSE g \in groups : \A h \in groups : g <= h].prefix \o msg

\* C20: for every exception message of a failed agent run the emitted error
\* string is the prefix of the first keyword group (authentication, CAPTCHA,
\* selector/navigation, timeout, connectivity) with a term in the
\* lower-cased message, followed by the original message with its case
\* unchanged, or the message verbatim when no group matches; a message
\* matching several groups gets only the prefix of the first of them.
C20_FirstGroupPrefix ==
    error_msg # <<>> =>
        /\ stdout # <<>>
        /\ LastEvent.error = << ClaimedError(error_msg[1], MatchingGroups(error_msg[1])) >>
        /\ error_msg = <<"401 unauthorized">> =>
                LastEvent.error = <<"login failed: 401 unauthorized">>
        /\ error_msg = <<"unrecognized widget xyz">> =>
                LastEvent.error = <<"unrecognized widget xyz">>

\* a mixed-case message with a timeout term and a connectivity term has been
\* classified as a timeout, its case kept
C20_Witness ==
    /\ pc = "classified"
    /\ error_msg = <<"Network Timed Out">>
    /\ Cardinality(MatchingGroups(error_msg[1])) = 2
    /\ LastEvent.error = <<"timeout: Network Timed Out">>

\* C21: a failed-run exception message containing "ETIMEDOUT" and no
\* authentication, CAPTCHA or selector/navigation keyword is classified as a
\* timeout: the emitted error string starts with the prefix "timeout".
C21_EtimedoutIsTimeout ==
    (/\ error_msg # <<>>
     /\ Contains(error_msg[1], "ETIMEDOUT")
     /\ MatchingGroups(error_msg[1]) \cap {1, 2, 3} = {}) =>
        /\ stdout # <<>>
        /\ LastEvent.error # <<>>
        /\ StartsWith(LastEvent.error[1], "timeout")

\* the QuoteRecord of the Result Event written last
QuoteRecord == LastEvent.data[1]

\* the case of the text the agent returned
IsCaseOf(c) == result = <<c.text>>

\* h hundredths is the value a / 12 rounded to 2 decimal places (either
\* neighbour when a / 12 lies midway between two hundredths)
IsTwelfthRounded(h, a) ==
    LET diff == 100 * a.mant - 12 * h * Pow10(a.exp)
    IN  /\ diff <= 6 * Pow10(a.exp)
        /\ -diff <= 6 * Pow10(a.exp)

\* v is a value of h hundredths for some h that is a / 12 rounded
IsDerivedMonthly(v, a) ==
    /\ v # <<>>
    /\ \E h \in 0..(9 * a.mant + 1) :
          /\ v[1].mant * Pow10(2) = h * Pow10(v[1].exp)
          /\ IsTwelfthRounded(h, a)

\* C22: for agent text that contains an annual premium phrasing with value a
\* and no monthly phrasing, extract_quote_data returns premiumAnnual = a
\* (thousands separators stripped) and premiumMonthly = a / 12 rounded to 2
\* decimal places; "annual premium: $1,200.00" gives 1200.0 and 100.0.
C22_MonthlyFromAnnual ==
    pc = "extracted" =>
        /\ \A c \in AnnualOnlyCases :
              IsCaseOf(c) =>
                  /\ QuoteRecord.premiumAnnual = c.annual
                  /\ IsDerivedMonthly(QuoteRecord.premiumMonthly, c.annual[1])
        /\ result = <<"Annual premium: $1,200.00">> =>
              /\ QuoteRecord.premiumAnnual = << [mant |-> 1200, exp |-> 0] >>
              /\ QuoteRecord.premiumMonthly = << [mant |-> 100, exp |-> 0] >>

\* the text of the agent's result: "" when it is absent
TextOf(r) == IF r = <<>> THEN "" ELSE r[1]

\* the shorter of two lengths
MinLen(a, b) == IF a < b THEN a ELSE b

\* C23: extract_quote_data returns a QuoteRecord for every agent result
\* (absent, empty or any text) and never raises; for empty or absent text
\* premiumAnnual, premiumMonthly and rawExtractedData.agentResponse are all
\* absent; for any text coverages and deductibles are empty and
\* rawExtractedData.agentResponse is the prefix of the text of length
\* min(len(text), 2000).
C23_AlwaysAQuoteRecord ==
    pc = "extracted" =>
        /\ LastEvent.success
        /\ LastEvent.data # <<>>
        /\ DOMAIN QuoteRecord = {"carrierCode", "premiumAnnual", "premiumMonthly",
                                 "coverages", "deductibles", "rawExtractedData"}
        /\ QuoteRecord.coverages = {}
        /\ QuoteRecord.deductibles = {}
        /\ TextOf(result) = "" =>
              /\ QuoteRecord.premiumAnnual = <<>>
              /\ QuoteRecord.premiumMonthly = <<>>
              /\ QuoteRecord.rawExtractedData.agentResponse = <<>>
        /\ TextOf(result) # "" =>
              /\ QuoteRecord.rawExtractedData.agentResponse # <<>>
              /\ Len(QuoteRecord.rawExtractedData.agentResponse[1])
                    = MinLen(Len(TextOf(result)), 2000)
              /\ QuoteRecord.rawExtractedData.agentResponse[1]
                    = SubSeq(TextOf(result), 1, MinLen(Len(TextOf(result)), 2000))

\* a text longer than 2000 characters has been extracted: its premium was
\* found and its agentResponse is cut to 2000 characters
C23_Witness ==
    /\ pc = "extracted"
    /\ Len(TextOf(result)) > 2000
    /\ QuoteRecord.premiumAnnual = << [mant |-> 1200, exp |-> 0] >>
    /\ Len(QuoteRecord.rawExtractedData.agentResponse[1]) = 2000

\* the fields of personal that build_navigation_task prints
PersonalFields == {"firstName", "lastName", "email", "phone", "dateOfBirth"}

\* the personal section is present with at least one field to print
HasPersonalToPrint(client_data) ==
    /\ client_data.personal # <<>>
    /\ \E key \in PersonalFields :
          key \in DOMAIN client_data.personal[1] /\ client_data.personal[1][key] # ""

\* C24: in the text build_navigation_task returns, each client-data section
\* (personal under "CLIENT INFORMATION TO USE:", "PROPERTY INFORMATION:",
\* "AUTO/VEHICLE INFORMATION:", "DRIVER INFORMATION:") appears only when
\* the section is present in clientData with at least one field to print; an
\* absent section contributes no lines, not even its header.
C24_SectionsOnlyWhenPresent ==
    pc = "compiled" =>
        /\ Contains(task, "CLIENT INFORMATION TO USE:")
              => HasPersonalToPrint(stdin.doc.clientData)
        /\ Contains(task, "PROPERTY INFORMATION:") => stdin.doc.clientData.property # <<>>
        /\ Contains(task, "AUTO/VEHICLE INFORMATION:") => stdin.doc.clientData.auto # <<>>
        /\ Contains(task, "DRIVER INFORMATION:") => stdin.doc.clientData.drivers # <<>>

\* the Progress Events of stdout, in the order they were written
ProgressStream == SelectSeq(stdout, IsProgress)

\* the sequence of events has non-decreasing progress values
NonDecreasing(events) ==
    \A k \in 1..(Len(events) - 1) : events[k].progress <= events[k + 1].progress

\* C25: over the whole stdout stream of one run the progress values of
\* successive Progress Events are monotonic non-decreasing, counting every
\* Progress Event: the startup status line, the supervisor milestones and the
\* events of the detector and the resolution flows emitted while agent.run
\* invokes the CAPTCHA capability.
C25_ProgressMonotonic == NonDecreasing(ProgressStream)

\* the flow is in its last iteration: every poll so far was answered and
\* left the task pending
LongPendingSolve ==
    /\ pc = "poll"
    /\ flow.attempt = PollAttempts(flow.kind) - 1

\* nothing was written to stdout since the flow announced its start
SilentSinceStart == LastEvent = SolvingEvents(flow.kind)[1]

\* C26: while a resolution flow is polling and the provider keeps answering
\* with a pending status, the flow emits Progress Events at coarse intervals
\* in each of the three flows (v2, v3, Turnstile); at the least, a solve that
\* stayed pending up to the last iteration of the loop has written a Progress
\* Event since it started.
C26_PollingObservable == LongPendingSolve => ~SilentSinceStart

\* the slice of the returned markdown that the marker m records
MarkedText(m) == Slice(parsed[1].markdown, m.start_index, m.end_index)

\* every returned marker records the offsets of its "--- PAGE N ---" text
OffsetsExact ==
    \A k \in 1..Len(parsed[1].page_markers) :
        MarkedText(parsed[1].page_markers[k])
            = MarkerText(parsed[1].page_markers[k].page_number)

\* the markdown holds no placeholder
NoPlaceholder == Find(markdown, placeholder) = 0

\* C27: for every markdown input and placeholder, inject_page_markers returns
\* page markers that record the character offsets of the markers in the
\* returned markdown: the slice from m.start_index to m.end_index is exactly
\* "--- PAGE N ---" with N = m.page_number, both for documents with
\* placeholders and for a single-page document with no placeholder, which
\* yields exactly page 1 and page_count 1.
C27_MarkerOffsets ==
    pc = "parsed" =>
        /\ OffsetsExact
        /\ NoPlaceholder =>
              /\ parsed[1].page_count = 1
              /\ Len(parsed[1].page_markers) = 1
              /\ parsed[1].page_markers[1].page_number = 1

\* solve_captcha detected a supported challenge with a site key (it called a
\* resolution flow) and has injected no token
DetectedButNoToken == det.invoked # <<>> /\ det.injected = <<>>

\* C28: whenever solve_captcha detects a supported challenge (kind A, B or C
\* with a site key) and the Resolution Client returns no token, the
\* detector's outcome is a failure and nothing is injected into the page; a
\* success outcome is returned only when no challenge was detected or a
\* token was obtained and injected.
C28_NoTokenIsFailure ==
    /\ \A k \in 1..Len(det.injected) : det.injected[k][2] # ""
    /\ (pc = "det_ret" /\ DetectedButNoToken /\ det.outcome # <<>>)
            => ~det.outcome[1].success

\* a resolution flow was in its polling loop (a task created, no end yet)
\* when an interrupt cancelled the run
AbortedInPolling ==
    /\ flow.taskId # ""
    /\ flow.end = ""
    /\ cancelPending \/ pc \in {"kbd_handler", "exit"}

\* C29: an interrupt that arrives while a resolution flow is suspended in
\* its polling loop aborts the whole run: the exception handlers of the flow
\* and of the detector do not turn it into "no token" or a failure outcome,
\* no further getTaskResult request and no token injection happens, no
\* success Result Event is emitted, and the single Result Event of the run
\* (main's handler running to its end) is the interruption error.
C29_InterruptAbortsRun ==
    /\ [](AbortedInPolling =>
            /\ pc \in {"poll", "kbd_handler", "exit"}
            /\ det.outcome = <<>>
            /\ ~det.raised
            /\ det.injected = <<>>
            /\ flow.token = ""
            /\ \A k \in ResultIndexes : stdout[k] = InterruptedResult
            /\ ResultCount <= 1
            /\ (pc = "exit" /\ ~unhandled) =>
                    /\ ResultCount = 1
                    /\ LastEvent = InterruptedResult
                    /\ exitCode = <<130>>)
    /\ [][AbortedInPolling =>
            /\ flow' = flow
            /\ det' = det
            /\ pc' \in {"kbd_handler", "exit"}]_vars

\* the run was interrupted after the Turnstile flow had polled, and ended
\* with the interruption error
C29_Witness ==
    /\ AbortedInPolling
    /\ pc = "exit"
    /\ flow.kind = "ts"
    /\ flow.polls >= 1
    /\ interrupts = 1
    /\ LastEvent = InterruptedResult
    /\ ResultCount = 1

\* the premiums of the record are those of case c, the monthly value being
\* derived exactly when the text states an annual value and no monthly one
FollowsDerivationRule(c, quote) ==
    /\ quote.premiumAnnual = c.annual
    /\ c.monthly # <<>> => quote.premiumMonthly = c.monthly
    /\ (c.annual # <<>> /\ c.monthly = <<>>) =>
            IsDerivedMonthly(quote.premiumMonthly, c.annual[1])
    /\ (c.annual = <<>> /\ c.monthly = <<>>) => quote.premiumMonthly = <<>>

\* C30: in extract_quote_data premiumMonthly is derived from the annual value
\* exactly when an annual value was found and no monthly value was found,
\* for all parsed values including zero: a monthly value parsed from the
\* text is returned unchanged and never overwritten by annual/12, and an
\* annual value found without a monthly value always yields a derived one.
C30_DerivedExactlyWhenMissing ==
    pc = "extracted" =>
        \A c \in ExtractCases : IsCaseOf(c) => FollowsDerivationRule(c, QuoteRecord)

\* a createTask response that reported no error and carried a task id
TaskCreated(resp) == ~resp.raised /\ resp.errorId = 0 /\ resp.taskId # ""

\* the flow returned no token without a poll and without a sleep
ReturnedUnpolled(f) ==
    /\ f.end # ""
    /\ f.token = ""
    /\ f.polls = 0
    /\ f.sleeps = 0

\* what the start of a flow does with each createTask response: it goes on
\* to poll, keeping the task id, exactly when a task was created
StartFollowsResponse ==
    \A kind \in {"v2", "v3", "ts"}, resp \in CreateResponses :
        IF TaskCreated(resp)
        THEN /\ FlowStart(kind, "key", TRUE, resp).flow.end = ""
             /\ FlowStart(kind, "key", TRUE, resp).flow.taskId = resp.taskId
        ELSE ReturnedUnpolled(FlowStart(kind, "key", TRUE, resp).flow)

\* C31: in each resolution flow a getTaskResult poll is issued only after a
\* createTask response that reported no error (errorId 0) and carried a
\* non-empty taskId, and every poll carries that taskId; when createTask
\* reports an error or returns no taskId the flow returns no token having
\* issued zero polls and zero sleeps.
C31_PollOnlyCreatedTask ==
    /\ [](/\ StartFollowsResponse
          /\ pc = "poll" => (flow.end = "" /\ flow.creates = 1 /\ flow.taskId # "")
          /\ flow.polls > 0 =>
                (flow.creates = 1 /\ flow.taskId # "" /\ flow.sent = flow.taskId)
          /\ flow.end \in {"create_error", "no_task", "create_exc"} =>
                (ReturnedUnpolled(flow) /\ pc \notin {"poll", "inject"}))
    /\ [][flow'.polls > flow.polls =>
            (pc = "poll" /\ flow.taskId # "" /\ flow'.sent = flow.taskId
                /\ flow'.taskId = flow.taskId)]_vars

\* the reCAPTCHA v3 flow got no task, and the Turnstile flow called next on
\* the same page has polled for the task it created
C31_Witness ==
    /\ det.invoked = <<"v3", "ts">>
    /\ flow.kind = "ts"
    /\ flow.polls >= 2
    /\ flow.sent = "task-1"
    /\ pc = "poll"

\* a flow returned at once on a createTask response without a task id
C31_WitnessNoTask ==
    /\ pc = "flow_ret"
    /\ flow.end = "no_task"
    /\ flow.polls = 0

\* hay.endswith(suffix)
EndsWith(hay, suffix) ==
    Len(suffix) <= Len(hay)
        /\ SubSeq(hay, Len(hay) - Len(suffix) + 1, Len(hay)) = suffix

\* the end of every task text, as the closing directive lists it
ClaimedClosing ==
    "When you reach the quote results, report the following:\n"
        \o "- Annual premium amount\n"
        \o "- Monthly premium amount (if shown)\n"
        \o "- Coverage limits\n"
        \o "- Deductible amounts"

\* the task text of the same carrier, portal URL, clientData and username
\* with another password and another MFA code
TaskWithSecrets(password, mfa_code) ==
    build_navigation_task(carrier, portalUrl, stdin.doc.clientData,
                          Creds(stdin.doc.credentials.username, password, mfa_code))

\* C32: build_navigation_task is deterministic and independent of the secret
\* credentials: two inputs that agree on carrier, portal URL, clientData and
\* credentials.username give the same text, whatever their password and
\* mfaCode values, and the text always ends with the same fixed closing
\* directive (annual premium, monthly premium, coverage limits, deductibles).
C32_TaskIndependentOfSecrets ==
    pc = "compiled" =>
        /\ \A password \in TaskPasswords, mfa_code \in TaskMfaCodes :
              TaskWithSecrets(password, mfa_code) = task
        /\ EndsWith(task, ClaimedClosing)

\* a task compiled for a client with personal and vehicle data, and for
\* credentials that hold a password and an MFA code
C32_Witness ==
    /\ pc = "compiled"
    /\ stdin.doc.clientData = ClientJane
    /\ stdin.doc.credentials.password = "s3cret"
    /\ stdin.doc.credentials.mfaCode = <<"123456">>
    /\ task = TaskWithSecrets("bob", <<>>)

\* stdout shows the "Quote extraction complete" milestone
ShowsComplete ==
    \E k \in 1..Len(stdout) :
        /\ IsProgress(stdout[k])
        /\ (stdout[k].progress = 100 \/ stdout[k].step = "Quote extraction complete")

\* the run is over and the Result Event written last reports a failure
EndedWithFailure ==
    /\ pc = "exit"
    /\ stdout # <<>>
    /\ IsResult(LastEvent)
    /\ ~LastEvent.success

\* progress 100 is on stdout exactly when a success Result Event is
MilestoneIffSuccess == ShowsComplete <=> SuccessIndexes # {}

\* C33: in every run a Progress Event with progress 100 ("Quote extraction
\* complete") is emitted if and only if the run's Result Event has
\* success=true; a run that ends with a failure Result Event (input error,
\* LLM initialisation failure, agent exception, unexpected error,
\* interruption) never shows progress 100.
C33_CompleteIffSuccess ==
    /\ MilestoneIffSuccess
    /\ EndedWithFailure => ~ShowsComplete

====
